---- MODULE Spec2Model ----
(***************************************************************************)
(* Runtime semantics engine of the ODP-EL toolchain (runtime/engine.py,    *)
(* runtime/instances.py, runtime/tracer.py) over a library community built *)
(* from the ODP model classes (ODP/behavior.py, ODP/event.py,              *)
(* ODP/guard.py, ODP/enterprise_object.py, ODP/community.py).              *)
(***************************************************************************)
EXTENDS Integers, Sequences, FiniteSets, TLC

(***************************************************************************)
(* Bounds of the exploration.                                              *)
(***************************************************************************)
\* perform_action calls that reach a decision (ACTION / ACTION_PROHIBITED)
MaxCalls == 3
\* artifact instances ever allocated (driver-created, Loan and Fine)
MaxObjs == 3

(***************************************************************************)
(* Python values that travel in kwargs and in artifact properties.         *)
(* k is the runtime type, v the payload: a party name, an index into the   *)
(* heap of ArtifactInstance objects, a boolean, a number or a string.      *)
(***************************************************************************)
NoneV == [k |-> "none", v |-> 0]
PartyV(n) == [k |-> "party", v |-> n]
ArtV(o) == [k |-> "art", v |-> o]
BoolV(b) == [k |-> "bool", v |-> b]
IntV(i) == [k |-> "int", v |-> i]
StrV(s) == [k |-> "str", v |-> s]

\* dict.get(key): the value of the first pair with that key, else None
DictHas(d, key) == \E i \in 1..Len(d) : d[i].key = key

DictGet(d, key) ==
  IF DictHas(d, key)
  THEN d[CHOOSE i \in 1..Len(d) : d[i].key = key].val
  ELSE NoneV

\* d[key] = val: replaces in place, or appends at the end (insertion order)
DictSet(d, key, val) ==
  IF DictHas(d, key)
  THEN [i \in 1..Len(d) |-> IF d[i].key = key THEN [key |-> key, val |-> val] ELSE d[i]]
  ELSE Append(d, [key |-> key, val |-> val])

KV(key, val) == [key |-> key, val |-> val]

(***************************************************************************)
(* ODP/event.py: events are frozen values compared by name; an expression  *)
(* is a tree whose operands are events or sub-expressions.                 *)
(***************************************************************************)
NoEvent == "None"

EvOperand(e) == [isExpr |-> FALSE, event |-> e]
ExprOperand(x) == [isExpr |-> TRUE, expr |-> x]

Leaf(e) == [op |-> "None", operands |-> <<EvOperand(e)>>]
AndExpr(ops) == [op |-> "AND", operands |-> ops]
OrExpr(ops) == [op |-> "OR", operands |-> ops]

is_leaf(x) ==
  /\ x.op = "None"
  /\ Len(x.operands) = 1
  /\ ~x.operands[1].isExpr

\* variant: an AND node holds as soon as one operand holds
RECURSIVE evaluate_AndAsAny(_, _)
evaluate_AndAsAny(x, occurred) ==
  IF is_leaf(x) THEN x.operands[1].event \in occurred
  ELSE IF x.op \in {"AND", "OR"}
  THEN \E i \in 1..Len(x.operands) :
         IF x.operands[i].isExpr
         THEN evaluate_AndAsAny(x.operands[i].expr, occurred)
         ELSE x.operands[i].event \in occurred
  ELSE FALSE

\* variant: a node without operands holds whatever its operator
RECURSIVE evaluate_EmptyHolds(_, _)
evaluate_EmptyHolds(x, occurred) ==
  IF is_leaf(x) THEN x.operands[1].event \in occurred
  ELSE IF x.operands = <<>> THEN TRUE
  ELSE IF x.op = "AND"
  THEN \A i \in 1..Len(x.operands) :
         IF x.operands[i].isExpr
         THEN evaluate_EmptyHolds(x.operands[i].expr, occurred)
         ELSE x.operands[i].event \in occurred
  ELSE IF x.op = "OR"
  THEN \E i \in 1..Len(x.operands) :
         IF x.operands[i].isExpr
         THEN evaluate_EmptyHolds(x.operands[i].expr, occurred)
         ELSE x.operands[i].event \in occurred
  ELSE FALSE

RECURSIVE evaluate(_, _)
evaluate(x, occurred) ==
  IF is_leaf(x) THEN x.operands[1].event \in occurred
  ELSE IF x.op = "AND"
  THEN \A i \in 1..Len(x.operands) :
         IF x.operands[i].isExpr
         THEN evaluate(x.operands[i].expr, occurred)
         ELSE x.operands[i].event \in occurred
  ELSE IF x.op = "OR"
  THEN \E i \in 1..Len(x.operands) :
         IF x.operands[i].isExpr
         THEN evaluate(x.operands[i].expr, occurred)
         ELSE x.operands[i].event \in occurred
  ELSE FALSE

(***************************************************************************)
(* ODP/behavior.py: token templates, actions and roles, and the library    *)
(* community the driver loads (dsl/library.odpl, as the hydrator builds    *)
(* it: a Delegation carries no tokens, every operand of an AND / OR is an  *)
(* expression).                                                            *)
(***************************************************************************)
NoRole == "None"
NoGuard == "None"
NoExpr == [op |-> "absent", operands |-> <<>>]

DeonticToken(type, name, role, trigger, hasFinish, finish) ==
  [token_type |-> type, name |-> name, affected_role |-> role,
   activation_trigger |-> trigger, has_finish |-> hasFinish,
   finish_expression |-> finish]

TokenTemplates ==
  [return_item |->
     DeonticToken("BURDEN", "return_item", NoRole, "ItemBorrowed",
                  TRUE, Leaf("ItemReturned")),
   borrow_receipt |->
     DeonticToken("PERMIT", "borrow_receipt", NoRole, NoEvent,
                  TRUE, Leaf("ItemReturned")),
   pay_fine |->
     DeonticToken("BURDEN", "pay_fine", "Borrower", "FineIssued",
                  TRUE, Leaf("FinePaid")),
   borrow_ban |->
     DeonticToken("EMBARGO", "borrow_ban", "Borrower", "FineIssued",
                  TRUE, OrExpr(<<ExprOperand(Leaf("FinePaid")),
                                 ExprOperand(Leaf("FineWaived"))>>)),
   proxy_permit |->
     DeonticToken("PERMIT", "proxy_permit", "ProxyBorrower", "BurdenDelegated",
                  TRUE, AndExpr(<<ExprOperand(Leaf("ItemReturned")),
                                  ExprOperand(Leaf("FinePaid"))>>))]

Action(name, variant, guard, trigger, tokens, tokenName, agent) ==
  [name |-> name, variant |-> variant, guard |-> guard,
   trigger_event |-> trigger, tokens |-> tokens,
   token_name |-> tokenName, agent |-> agent]

\* isinstance(action, SpeechAct): Authorization, Delegation and Declaration
\* are subclasses of SpeechAct
IsSpeechAct(action) ==
  action.variant \in {"SpeechAct", "Authorization", "Delegation", "Declaration"}

IsDelegation(action) == action.variant = "Delegation"

Roles ==
  << [name |-> "Undergraduate",
      actions |-> <<
        Action("borrowItem", "SpeechAct", NoGuard, "ItemBorrowed",
               <<"return_item", "borrow_receipt">>, "", NoRole) >>],
     [name |-> "Borrower",
      actions |-> <<
        Action("borrowItem", "SpeechAct", "loanCount(self) < max_loans",
               "ItemBorrowed", <<"return_item">>, "", NoRole),
        Action("returnItem", "BasicAction", NoGuard, "ItemReturned",
               <<>>, "", NoRole),
        Action("payFine", "BasicAction", "hasUnpaidFines(self)", "FinePaid",
               <<>>, "", NoRole),
        Action("return_item_delegation", "Delegation", NoGuard,
               "BurdenDelegated", <<>>, "return_item", "ProxyBorrower") >>],
     [name |-> "Librarian",
      actions |-> <<
        Action("fineBorrower", "SpeechAct", "loan.isOverdue", "FineIssued",
               <<"pay_fine", "borrow_ban">>, "", NoRole),
        Action("authorizeProxy", "Authorization", NoGuard, NoEvent,
               <<"proxy_permit">>, "", NoRole),
        Action("waiveFine", "BasicAction", NoGuard, "FineWaived",
               <<>>, "", NoRole) >>],
     [name |-> "ProxyBorrower",
      actions |-> <<
        Action("proxy_return_item", "BasicAction", NoGuard, "ItemReturned",
               <<>>, "", NoRole) >>] >>

ArtifactTemplates == {"LibraryItem", "Loan", "Fine"}

\* the Policy rules of the community: name -> initial_value
PolicyRules == [max_loans |-> 1]

(***************************************************************************)
(* ODP/community.py: a Community and its name indexes.  The lists hold     *)
(* objects with a name; an index is a dict name -> object of the list.     *)
(***************************************************************************)
\* Community.__post_init__: the three indexes start empty
Community(roles, artifacts, events, rules) ==
  [roles |-> roles, artifacts |-> artifacts, events |-> events, rules |-> rules,
   role_index |-> << >>, artifact_index |-> << >>, event_index |-> << >>]

\* variant: a name met again replaces the entry, nothing is raised
RECURSIVE FillIndex_Overwrites(_, _, _)
FillIndex_Overwrites(list, i, index) ==
  IF i > Len(list) THEN [index |-> index, raised |-> FALSE]
  ELSE FillIndex_Overwrites(list, i + 1,
                 [n \in DOMAIN index \cup {list[i].name} |->
                    IF n = list[i].name THEN list[i] ELSE index[n]])

\* one loop of build_indexes from element i on: the index as the loop
\* leaves it, raised when a name was already in the index
RECURSIVE FillIndex(_, _, _)
FillIndex(list, i, index) ==
  IF i > Len(list) THEN [index |-> index, raised |-> FALSE]
  ELSE IF list[i].name \in DOMAIN index THEN [index |-> index, raised |-> TRUE]
  ELSE FillIndex(list, i + 1,
                 [n \in DOMAIN index \cup {list[i].name} |->
                    IF n = list[i].name THEN list[i] ELSE index[n]])

\* the indexes are cleared, then filled from roles, artifacts and events in
\* that order; a ValueError leaves the loops that follow unrun
build_indexes(c) ==
  LET r == FillIndex(c.roles, 1, << >>)
      a == IF r.raised THEN [index |-> << >>, raised |-> TRUE]
           ELSE FillIndex(c.artifacts, 1, << >>)
      e == IF a.raised THEN [index |-> << >>, raised |-> TRUE]
           ELSE FillIndex(c.events, 1, << >>)
  IN [community |-> [c EXCEPT !.role_index = r.index,
                              !.artifact_index = a.index,
                              !.event_index = e.index],
      raised |-> e.raised]

\* dict.get(name): << >> is None
IndexGet(index, name) == IF name \in DOMAIN index THEN <<index[name]>> ELSE << >>

Community_get_role(c, name) == IndexGet(c.role_index, name)
Community_get_artifact(c, name) == IndexGet(c.artifact_index, name)
Community_get_event(c, name) == IndexGet(c.event_index, name)

\* Engine.__init__: {rule.name: rule.initial_value for rule in comm.rules
\* if isinstance(rule, Policy)}; of two rules with one name the later stays
EnginePolicyValues(rules) ==
  LET policies == {i \in 1..Len(rules) : rules[i].kind = "Policy"}
  IN [n \in {rules[i].name : i \in policies} |->
        rules[CHOOSE i \in policies :
                /\ rules[i].name = n
                /\ \A j \in policies : rules[j].name = n => j <= i].initial_value]

Policy(name, initial_value) ==
  [kind |-> "Policy", name |-> name, initial_value |-> initial_value]

\* the library community as hydrate() returns it
LibraryCommunity ==
  build_indexes(
    Community(Roles,
              <<[name |-> "LibraryItem"], [name |-> "Loan"], [name |-> "Fine"]>>,
              <<[name |-> "ItemBorrowed"], [name |-> "ItemReturned"],
                [name |-> "FineIssued"], [name |-> "FinePaid"],
                [name |-> "FineWaived"], [name |-> "BurdenDelegated"]>>,
              <<Policy("max_loans", 1)>>)).community


(***************************************************************************)
(* Engine state (runtime/engine.py, Engine.__init__).                      *)
(*   parties        name -> Party (name, fulfills_roles)                   *)
(*   heap           every ArtifactInstance object ever constructed; a      *)
(*                  reference to an instance is its index                  *)
(*   artifacts      instance_id -> reference into heap                     *)
(*   tokens         list of DeonticTokenInstance                           *)
(*   history        tracer entries (timestamps left out)                   *)
(*   policy_values  name -> initial value of the community's policies      *)
(*   community      the community of the model, with its indexes           *)
(* and what the driver sees of its last call:                              *)
(*   lastCall       the call and its arguments; of a perform_action also   *)
(*                  whether it got to Guard.evaluate (the console shows    *)
(*                  the guard and the domain functions at work)            *)
(*   outcome        the exit the call took ("raised": an exception left    *)
(*                  the engine)                                            *)
(***************************************************************************)
VARIABLES parties, heap, artifacts, tokens, history, policy_values,
          community, lastCall, outcome

vars == <<parties, heap, artifacts, tokens, history, policy_values,
          community, lastCall, outcome>>

\* instance ids are <<prefix, n>>: <<"book", 1>> is "book-001", <<"loan", n>>
\* and <<"fine", n>> carry the hex digits uuid4 contributes
LoanId(uid) == <<"loan", uid>>
FineId(uid) == <<"fine", uid>>
\* "token-<hex>": the hex digits drawn for the n-th token of the list; no
\* code compares token ids, they are only written to the trace
TokenId(uid, n) == <<"token", uid, n>>

(***************************************************************************)
(* ODP/community.py and ODP/enterprise_object.py lookups.                  *)
(***************************************************************************)
\* Community.get_role over the index built by build_indexes: <<role>> or <<>>
get_role(name) ==
  IF \E i \in 1..Len(Roles) : Roles[i].name = name
  THEN <<Roles[CHOOSE i \in 1..Len(Roles) : Roles[i].name = name]>>
  ELSE <<>>

get_artifact(name) == IF name \in ArtifactTemplates THEN <<name>> ELSE <<>>

\* CommunityRole.get_action: the first action of the role with that name
RoleGetAction(role, action_name) ==
  LET hits == {i \in 1..Len(role.actions) : role.actions[i].name = action_name}
  IN IF hits = {} THEN <<>>
     ELSE <<role.actions[CHOOSE i \in hits : \A j \in hits : i <= j]>>

\* variant: the action is looked up in every role of the community, not in
\* the roles the party fulfils
PartyGetAction_AnyRole(party, action_name) ==
  LET hits == {i \in 1..Len(Roles) : RoleGetAction(Roles[i], action_name) # <<>>}
  IN IF hits = {} THEN <<>>
     ELSE RoleGetAction(Roles[CHOOSE i \in hits : \A j \in hits : i <= j], action_name)

\* variant: of several roles that have the action the last one wins
PartyGetAction_LastRole(party, action_name) ==
  LET hits == {i \in 1..Len(party.fulfills_roles) :
                 RoleGetAction(get_role(party.fulfills_roles[i])[1], action_name) # <<>>}
  IN IF hits = {} THEN <<>>
     ELSE RoleGetAction(
            get_role(party.fulfills_roles[CHOOSE i \in hits : \A j \in hits : j <= i])[1],
            action_name)

\* Party.get_action: scans fulfills_roles in order, first role that has it
PartyGetAction(party, action_name) ==
  LET hits == {i \in 1..Len(party.fulfills_roles) :
                 RoleGetAction(get_role(party.fulfills_roles[i])[1], action_name) # <<>>}
  IN IF hits = {} THEN <<>>
     ELSE RoleGetAction(
            get_role(party.fulfills_roles[CHOOSE i \in hits : \A j \in hits : i <= j])[1],
            action_name)

\* Party.has_role
has_role(party, role_name) ==
  \E i \in 1..Len(party.fulfills_roles) : party.fulfills_roles[i] = role_name

(***************************************************************************)
(* Python equality and repr of the values.                                 *)
(***************************************************************************)
\* dataclass equality of ArtifactInstance is structural: id, template and
\* properties (dict equality ignores insertion order); parties registered
\* in the engine are distinguished by name
RECURSIVE ValEq(_, _, _)
ValEq(a, b, hp) ==
  IF a.k # b.k THEN FALSE
  ELSE IF a.k = "art"
  THEN LET x == hp[a.v]
           y == hp[b.v]
       IN \/ a.v = b.v
          \/ /\ x.instance_id = y.instance_id
             /\ x.template = y.template
             /\ Len(x.properties) = Len(y.properties)
             /\ \A i \in 1..Len(x.properties) :
                  /\ DictHas(y.properties, x.properties[i].key)
                  /\ ValEq(x.properties[i].val,
                           DictGet(y.properties, x.properties[i].key), hp)
  ELSE a.v = b.v

\* repr(v) as the tracer stores it in an ACTION entry's args
Repr(v, ps, hp) ==
  IF v.k = "party"
  THEN [k |-> "Party", name |-> v.v, fulfills_roles |-> ps[v.v].fulfills_roles,
        active_tokens |-> 0]
  ELSE IF v.k = "art"
  THEN [k |-> "ArtifactInstance", id |-> hp[v.v].instance_id,
        type |-> hp[v.v].template]
  ELSE [k |-> "literal", text |-> v]

ReprArgs(kwargs, ps, hp) ==
  [i \in 1..Len(kwargs) |-> KV(kwargs[i].key, Repr(kwargs[i].val, ps, hp))]

(***************************************************************************)
(* Engine._get_domain_functions and Guard.evaluate.                        *)
(***************************************************************************)
\* bool(v) of a Python value
Truthy(v) ==
  IF v.k = "none" THEN FALSE
  ELSE IF v.k = "bool" THEN v.v
  ELSE IF v.k = "int" THEN v.v # 0
  ELSE IF v.k = "str" THEN v.v # ""
  ELSE TRUE

\* getattr(art, name, None) on an ArtifactInstance: its property or None
GetAttr(obj, name) == DictGet(obj.properties, name)

\* variant: every Loan ever constructed is counted, returned or not
loan_count_EverCreated(p, arts, hp) ==
  Cardinality({o \in 1..Len(hp) :
                 /\ hp[o].template = "Loan"
                 /\ ValEq(GetAttr(hp[o], "borrower"), p, hp)})

loan_count(p, arts, hp) ==
  Cardinality({id \in DOMAIN arts :
                 /\ hp[arts[id]].template = "Loan"
                 /\ ValEq(GetAttr(hp[arts[id]], "borrower"), p, hp)})

has_unpaid_fines(p, arts, hp) ==
  \E id \in DOMAIN arts :
    /\ hp[arts[id]].template = "Fine"
    /\ ValEq(GetAttr(hp[arts[id]], "borrower"), p, hp)
    /\ DictHas(hp[arts[id]].properties, "isPaid")
    /\ ~Truthy(GetAttr(hp[arts[id]], "isPaid"))

\* eval(raw, context) for the guards of the community, over the context
\* {**policy_values, **domain functions, "self": party, **kwargs}:
\* "true", "false", or "error" when the evaluation raises
EvalGuard(raw, party_name, kwargs, pv, arts, hp) ==
  IF raw = "loanCount(self) < max_loans"
  THEN IF loan_count(PartyV(party_name), arts, hp) < pv.max_loans
       THEN "true" ELSE "false"
  ELSE IF raw = "hasUnpaidFines(self)"
  THEN IF has_unpaid_fines(PartyV(party_name), arts, hp) THEN "true" ELSE "false"
  ELSE IF raw = "loan.isOverdue"
  THEN IF ~DictHas(kwargs, "loan") THEN "error"
       ELSE LET loan == DictGet(kwargs, "loan")
            IN IF loan.k # "art" THEN "error"
               ELSE IF ~DictHas(hp[loan.v].properties, "isOverdue") THEN "error"
               ELSE IF Truthy(GetAttr(hp[loan.v], "isOverdue")) THEN "true"
               ELSE "false"
  ELSE "error"

\* variant: any evaluation that does not raise counts as True
GuardEvaluate_NotRaised(raw, party_name, kwargs, pv, arts, hp) ==
  EvalGuard(raw, party_name, kwargs, pv, arts, hp) # "error"

\* Guard.evaluate: an evaluation that raises counts as False
GuardEvaluate(raw, party_name, kwargs, pv, arts, hp) ==
  EvalGuard(raw, party_name, kwargs, pv, arts, hp) = "true"

(***************************************************************************)
(* Engine.create_artifact_instance as a function of (artifacts, heap).     *)
(***************************************************************************)
\* variant: the id is not looked up first, a second instance takes its place
create_artifact_instance_Overwrites(artifact_type, instance_id, properties, arts, hp) ==
  IF get_artifact(artifact_type) = <<>>
  THEN [artifacts |-> arts, heap |-> hp, exit |-> "type_not_found"]
  ELSE [artifacts |->
          [id \in DOMAIN arts \cup {instance_id} |->
             IF id = instance_id THEN Len(hp) + 1 ELSE arts[id]],
        heap |-> Append(hp, [instance_id |-> instance_id,
                             template |-> artifact_type,
                             properties |-> properties]),
        exit |-> "artifact_created"]

\* engine.py 52-66
create_artifact_instance(artifact_type, instance_id, properties, arts, hp) ==
  IF instance_id \in DOMAIN arts
  THEN [artifacts |-> arts, heap |-> hp, exit |-> "artifact_exists"]
  ELSE IF get_artifact(artifact_type) = <<>>
  THEN [artifacts |-> arts, heap |-> hp, exit |-> "type_not_found"]
  ELSE [artifacts |->
          [id \in DOMAIN arts \cup {instance_id} |->
             IF id = instance_id THEN Len(hp) + 1 ELSE arts[id]],
        heap |-> Append(hp, [instance_id |-> instance_id,
                             template |-> artifact_type,
                             properties |-> properties]),
        exit |-> "artifact_created"]

(***************************************************************************)
(* The steps of Engine.perform_action after the ACTION entry, each on a    *)
(* record w of the values the call is working on:                          *)
(*   artifacts, heap, tokens, history, kwargs and status, which is "run"   *)
(*   while the call goes on, "returned" after an early return and "raised" *)
(*   once an exception is on its way to the driver.                        *)
(***************************************************************************)
\* engine.py 159-163: borrowItem builds a Loan under a drawn id and puts
\* whatever the map then holds under that id into kwargs["loan"]
BorrowItemBuiltin(w, party_name, uid) ==
  LET loan_id == LoanId(uid)
      props == <<KV("item", DictGet(w.kwargs, "item")),
                 KV("borrower", PartyV(party_name)),
                 KV("isOverdue", BoolV(FALSE))>>
      c == create_artifact_instance("Loan", loan_id, props, w.artifacts, w.heap)
  IN IF loan_id \in DOMAIN c.artifacts
     THEN [w EXCEPT !.artifacts = c.artifacts, !.heap = c.heap,
                    !.kwargs = DictSet(w.kwargs, "loan", ArtV(c.artifacts[loan_id]))]
     ELSE [w EXCEPT !.status = "raised"]

\* variant: a call without a loan clears the performer's loans
ReturnItemBuiltin_ClearsAll(w, party_name) ==
  LET loan == DictGet(w.kwargs, "loan")
  IN IF ~Truthy(loan)
     THEN [w EXCEPT !.artifacts =
             [id \in {i \in DOMAIN w.artifacts :
                        ~(/\ w.heap[w.artifacts[i]].template = "Loan"
                          /\ GetAttr(w.heap[w.artifacts[i]], "borrower")
                               = PartyV(party_name))} |->
                w.artifacts[id]]]
     ELSE IF loan.k # "art" THEN [w EXCEPT !.status = "raised"]
     ELSE IF w.heap[loan.v].instance_id \in DOMAIN w.artifacts
     THEN [w EXCEPT !.artifacts =
             [id \in DOMAIN w.artifacts \ {w.heap[loan.v].instance_id} |->
                w.artifacts[id]]]
     ELSE w

\* engine.py 164-167: returnItem deletes the entry under loan.instance_id
ReturnItemBuiltin(w, party_name) ==
  LET loan == DictGet(w.kwargs, "loan")
  IN IF ~Truthy(loan) THEN w
     ELSE IF loan.k # "art" THEN [w EXCEPT !.status = "raised"]
     ELSE IF w.heap[loan.v].instance_id \in DOMAIN w.artifacts
     THEN [w EXCEPT !.artifacts =
             [id \in DOMAIN w.artifacts \ {w.heap[loan.v].instance_id} |->
                w.artifacts[id]]]
     ELSE w

\* engine.py 168-178: fineBorrower builds a Fine under a drawn id and puts
\* whatever the map then holds under that id into kwargs["fine"]
FineBorrowerBuiltin(w, party_name, uid) ==
  LET loan == DictGet(w.kwargs, "loan")
      fine_id == FineId(uid)
  IN IF loan.k # "art" THEN [w EXCEPT !.status = "raised"]
     ELSE IF ~DictHas(w.heap[loan.v].properties, "borrower")
     THEN [w EXCEPT !.status = "raised"]
     ELSE LET props == <<KV("borrower", GetAttr(w.heap[loan.v], "borrower")),
                         KV("loan", loan),
                         KV("amount", IntV(500)),
                         KV("isPaid", BoolV(FALSE))>>
              c == create_artifact_instance("Fine", fine_id, props, w.artifacts, w.heap)
          IN IF fine_id \in DOMAIN c.artifacts
             THEN [w EXCEPT !.artifacts = c.artifacts, !.heap = c.heap,
                            !.kwargs = DictSet(w.kwargs, "fine",
                                               ArtV(c.artifacts[fine_id]))]
             ELSE [w EXCEPT !.status = "raised"]

\* engine.py 159-178: the built-in effects by action name
ApplyBuiltin(w, action, party_name, uid) ==
  IF action.name = "borrowItem" THEN BorrowItemBuiltin(w, party_name, uid)
  ELSE IF action.name = "returnItem" THEN ReturnItemBuiltin(w, party_name)
  ELSE IF action.name = "fineBorrower" THEN FineBorrowerBuiltin(w, party_name, uid)
  ELSE w

\* engine.py 96-109: Engine._resolve_token_owner, the owner's name
RECURSIVE FirstPartyWithRole(_, _, _, _)
FirstPartyWithRole(d, i, role_name, ps) ==
  IF i > Len(d) THEN <<>>
  ELSE IF d[i].val.k = "party" /\ has_role(ps[d[i].val.v], role_name)
  THEN <<d[i].val.v>>
  ELSE FirstPartyWithRole(d, i + 1, role_name, ps)

\* variant: the arguments that are parties are looked at before the
\* properties of any artifact
ScanArgs_PartiesFirst(action_args, i, role_name, ps, hp) ==
  LET direct == {k \in i..Len(action_args) :
                   /\ action_args[k].val.k = "party"
                   /\ has_role(ps[action_args[k].val.v], role_name)}
      inside == {k \in i..Len(action_args) :
                   /\ action_args[k].val.k = "art"
                   /\ FirstPartyWithRole(hp[action_args[k].val.v].properties, 1,
                                         role_name, ps) # <<>>}
  IN IF direct # {}
     THEN <<action_args[CHOOSE k \in direct : \A m \in direct : k <= m].val.v>>
     ELSE IF inside # {}
     THEN FirstPartyWithRole(
            hp[action_args[CHOOSE k \in inside : \A m \in inside : k <= m].val.v].properties,
            1, role_name, ps)
     ELSE <<>>

RECURSIVE ScanArgs(_, _, _, _, _)
ScanArgs(action_args, i, role_name, ps, hp) ==
  IF i > Len(action_args) THEN <<>>
  ELSE LET arg == action_args[i].val
           inProps == IF arg.k = "art"
                      THEN FirstPartyWithRole(hp[arg.v].properties, 1, role_name, ps)
                      ELSE <<>>
       IN IF arg.k = "party" /\ has_role(ps[arg.v], role_name) THEN <<arg.v>>
          ELSE IF inProps # <<>> THEN inProps
          ELSE ScanArgs(action_args, i + 1, role_name, ps, hp)

resolve_token_owner(token_template, performer, action_args, ps, hp) ==
  IF token_template.affected_role = NoRole THEN performer
  ELSE LET hit == ScanArgs(action_args, 1, token_template.affected_role, ps, hp)
       IN IF hit # <<>> THEN hit[1] ELSE performer

\* instances.py 38-46: DeonticTokenInstance(template=, owner=, context=);
\* state takes the dataclass default, instance_id stands for the uuid-made id
DeonticTokenInstance(template_name, owner, instance_id, context) ==
  [template |-> template_name, owner |-> owner, instance_id |-> instance_id,
   state |-> "INACTIVE", context |-> context]

\* tracer.py 41-82: the entries
LogAction(party_name, action_name, args) ==
  [event_type |-> "ACTION", party |-> party_name,
   action_name |-> action_name, args |-> args]

\* variant: the entry drops the reason
LogActionProhibited_NoReason(party_name, action_name, reason) ==
  [event_type |-> "ACTION_PROHIBITED", party |-> party_name,
   action_name |-> action_name, reason |-> <<>>]

LogActionProhibited(party_name, action_name, reason) ==
  [event_type |-> "ACTION_PROHIBITED", party |-> party_name,
   action_name |-> action_name, reason |-> reason]

LogTokenCreation(token) ==
  [event_type |-> "TOKEN_CREATE", token_id |-> token.instance_id,
   template_name |-> TokenTemplates[token.template].name, owner |-> token.owner]

LogTokenStateChange(token, trigger_event) ==
  [event_type |-> "TOKEN_STATE_CHANGE", token_id |-> token.instance_id,
   template_name |-> TokenTemplates[token.template].name, owner |-> token.owner,
   new_state |-> token.state, trigger_event |-> trigger_event]

\* variant: the state of the token is not looked at
DelegationMatch_AnyState(token, party_name, action, loan_context, hp) ==
  /\ token.owner = party_name
  /\ TokenTemplates[token.template].name = action.token_name
  /\ ValEq(DictGet(token.context, "loan"), loan_context, hp)

\* variant: any token of the performer will do
DelegationMatch_OwnerOnly(token, party_name, action, loan_context, hp) ==
  token.owner = party_name

\* engine.py 181-211: the Delegation branch
DelegationMatch(token, party_name, action, loan_context, hp) ==
  /\ token.owner = party_name
  /\ TokenTemplates[token.template].name = action.token_name
  /\ token.state = "ACTIVE"
  /\ ValEq(DictGet(token.context, "loan"), loan_context, hp)

\* variant: the token is handed over as a fresh instance, whose state is the
\* dataclass default again
PerformDelegation_Reissue(w, action, party_name, ps) ==
  LET new_owner == DictGet(w.kwargs, "agent")
      loan_context == DictGet(w.kwargs, "loan")
      hits == {i \in 1..Len(w.tokens) :
                 DelegationMatch(w.tokens[i], party_name, action, loan_context, w.heap)}
  IN IF new_owner.k # "party" THEN [w EXCEPT !.status = "raised"]
     ELSE IF ~has_role(ps[new_owner.v], action.agent)
     THEN [w EXCEPT !.status = "returned"]
     ELSE IF hits = {} THEN w
     ELSE LET i == CHOOSE i \in hits : \A j \in hits : i <= j
              moved == DeonticTokenInstance(w.tokens[i].template, new_owner.v,
                                            w.tokens[i].instance_id,
                                            w.tokens[i].context)
          IN [w EXCEPT !.tokens = [w.tokens EXCEPT ![i] = moved],
                       !.history = Append(w.history,
                          LogTokenStateChange(moved, <<"delegated via", action.name>>))]

\* variant: the token is taken out of the list and put back at its end
PerformDelegation_MovesToEnd(w, action, party_name, ps) ==
  LET new_owner == DictGet(w.kwargs, "agent")
      loan_context == DictGet(w.kwargs, "loan")
      hits == {i \in 1..Len(w.tokens) :
                 DelegationMatch(w.tokens[i], party_name, action, loan_context, w.heap)}
  IN IF new_owner.k # "party" THEN [w EXCEPT !.status = "raised"]
     ELSE IF ~has_role(ps[new_owner.v], action.agent)
     THEN [w EXCEPT !.status = "returned"]
     ELSE IF hits = {} THEN w
     ELSE LET i == CHOOSE i \in hits : \A j \in hits : i <= j
              moved == [w.tokens[i] EXCEPT !.owner = new_owner.v]
          IN [w EXCEPT !.tokens = Append(SubSeq(w.tokens, 1, i - 1)
                                           \o SubSeq(w.tokens, i + 1, Len(w.tokens)),
                                         moved),
                       !.history = Append(w.history,
                          LogTokenStateChange(moved, <<"delegated via", action.name>>))]

\* variant: every token the performer holds for the loan goes to the agent
PerformDelegation_HandsAll(w, action, party_name, ps) ==
  LET new_owner == DictGet(w.kwargs, "agent")
      loan_context == DictGet(w.kwargs, "loan")
      hits == {i \in 1..Len(w.tokens) :
                 /\ w.tokens[i].owner = party_name
                 /\ ValEq(DictGet(w.tokens[i].context, "loan"), loan_context, w.heap)}
  IN IF new_owner.k # "party" THEN [w EXCEPT !.status = "raised"]
     ELSE IF ~has_role(ps[new_owner.v], action.agent)
     THEN [w EXCEPT !.status = "returned"]
     ELSE [w EXCEPT !.tokens = [i \in 1..Len(w.tokens) |->
                                  IF i \in hits
                                  THEN [w.tokens[i] EXCEPT !.owner = new_owner.v]
                                  ELSE w.tokens[i]]]

PerformDelegation(w, action, party_name, ps) ==
  LET new_owner == DictGet(w.kwargs, "agent")
      loan_context == DictGet(w.kwargs, "loan")
      hits == {i \in 1..Len(w.tokens) :
                 DelegationMatch(w.tokens[i], party_name, action, loan_context, w.heap)}
  IN IF new_owner.k # "party" THEN [w EXCEPT !.status = "raised"]
     ELSE IF ~has_role(ps[new_owner.v], action.agent)
     THEN [w EXCEPT !.status = "returned"]
     ELSE IF hits = {} THEN w
     ELSE LET i == CHOOSE i \in hits : \A j \in hits : i <= j
              moved == [w.tokens[i] EXCEPT !.owner = new_owner.v]
          IN [w EXCEPT !.tokens = [w.tokens EXCEPT ![i] = moved],
                       !.history = Append(w.history,
                          LogTokenStateChange(moved, <<"delegated via", action.name>>))]

\* engine.py 213-221: one token per template of a SpeechAct
RECURSIVE MintTokens(_, _, _, _, _, _)
MintTokens(w, templates, i, party_name, uid, ps) ==
  IF i > Len(templates) THEN w
  ELSE LET owner == resolve_token_owner(TokenTemplates[templates[i]], party_name,
                                        w.kwargs, ps, w.heap)
           token == DeonticTokenInstance(templates[i], owner,
                                         TokenId(uid, Len(w.tokens) + 1), w.kwargs)
       IN MintTokens([w EXCEPT !.tokens = Append(w.tokens, token),
                               !.history = Append(w.history, LogTokenCreation(token))],
                     templates, i + 1, party_name, uid, ps)

\* variant: the activation branch does not look at the token's state
TokenAfterEvent_Rearm(token, event) ==
  IF TokenTemplates[token.template].activation_trigger = event
  THEN [token EXCEPT !.state = "ACTIVE"]
  ELSE IF /\ token.state = "ACTIVE"
          /\ TokenTemplates[token.template].has_finish
          /\ evaluate(TokenTemplates[token.template].finish_expression, {event})
  THEN [token EXCEPT !.state = "DISCHARGED"]
  ELSE token

\* variant: the discharge test is an if of its own, run after the activation
StateAfterEvent_ThenDischarges(template, state, event) ==
  LET activated == IF state = "INACTIVE" /\ template.activation_trigger = event
                   THEN "ACTIVE" ELSE state
  IN IF /\ activated = "ACTIVE"
        /\ template.has_finish
        /\ evaluate(template.finish_expression, {event})
     THEN "DISCHARGED"
     ELSE activated

\* engine.py 231-249: the state one firing leaves a token of that template in
StateAfterEvent(template, state, event) ==
  IF state = "INACTIVE" /\ template.activation_trigger = event
  THEN "ACTIVE"
  ELSE IF /\ state = "ACTIVE"
          /\ template.has_finish
          /\ evaluate(template.finish_expression, {event})
  THEN "DISCHARGED"
  ELSE state

\* engine.py 231-249: what one firing does to one token
TokenAfterEvent(token, event) ==
  [token EXCEPT !.state = StateAfterEvent(TokenTemplates[token.template], @, event)]

\* engine.py 226-249: Engine._fire_event over the tokens in order
RECURSIVE FireLog(_, _, _)
FireLog(toks, i, event) ==
  IF i > Len(toks) THEN <<>>
  ELSE LET after == TokenAfterEvent(toks[i], event)
       IN (IF after.state # toks[i].state
           THEN <<LogTokenStateChange(after, <<event>>)>> ELSE <<>>)
          \o FireLog(toks, i + 1, event)

\* variant: a token the firing activates fires in turn the first event of
\* its own finish expression
FireEvent_Cascades(w, event) ==
  LET w1 == [w EXCEPT !.tokens = [i \in 1..Len(w.tokens) |->
                                    TokenAfterEvent(w.tokens[i], event)],
                      !.history = w.history \o FireLog(w.tokens, 1, event)]
      activated == {i \in 1..Len(w.tokens) :
                      /\ w.tokens[i].state = "INACTIVE"
                      /\ w1.tokens[i].state = "ACTIVE"
                      /\ TokenTemplates[w.tokens[i].template].has_finish}
  IN IF activated = {} THEN w1
     ELSE LET i == CHOOSE i \in activated : \A j \in activated : i <= j
              x == TokenTemplates[w.tokens[i].template].finish_expression
              next == IF is_leaf(x) THEN x.operands[1].event
                      ELSE x.operands[1].expr.operands[1].event
          IN [w1 EXCEPT !.tokens = [k \in 1..Len(w1.tokens) |->
                                      TokenAfterEvent(w1.tokens[k], next)],
                        !.history = w1.history \o FireLog(w1.tokens, 1, next)]

\* variant: an event reaches only the tokens minted for the loan the call
\* is about
FireEvent_SameLoan(w, event) ==
  LET reached(i) == ValEq(DictGet(w.tokens[i].context, "loan"),
                          DictGet(w.kwargs, "loan"), w.heap)
      after == [i \in 1..Len(w.tokens) |->
                  IF reached(i) THEN TokenAfterEvent(w.tokens[i], event)
                  ELSE w.tokens[i]]
      log[i \in 0..Len(w.tokens)] ==
        IF i = 0 THEN <<>>
        ELSE log[i - 1] \o (IF after[i].state # w.tokens[i].state
                            THEN <<LogTokenStateChange(after[i], <<event>>)>>
                            ELSE <<>>)
  IN [w EXCEPT !.tokens = after,
               !.history = w.history \o log[Len(w.tokens)]]

FireEvent(w, event) ==
  [w EXCEPT !.tokens = [i \in 1..Len(w.tokens) |-> TokenAfterEvent(w.tokens[i], event)],
            !.history = w.history \o FireLog(w.tokens, 1, event)]

\* variant: an embargo blocks from its activation on, discharged or not
ActiveEmbargoes_OnceArmed(toks, party_name) ==
  {i \in 1..Len(toks) :
     /\ toks[i].owner = party_name
     /\ toks[i].state \in {"ACTIVE", "DISCHARGED"}
     /\ TokenTemplates[toks[i].template].token_type = "EMBARGO"}

\* variant: the screen does not look at the owner
ActiveEmbargoes_AnyOwner(toks, party_name) ==
  {i \in 1..Len(toks) :
     /\ toks[i].state = "ACTIVE"
     /\ TokenTemplates[toks[i].template].token_type = "EMBARGO"}

\* variant: the screen tests for the wrong state
ActiveEmbargoes_Inactive(toks, party_name) ==
  {i \in 1..Len(toks) :
     /\ toks[i].owner = party_name
     /\ toks[i].state = "INACTIVE"
     /\ TokenTemplates[toks[i].template].token_type = "EMBARGO"}

\* engine.py 129-139: the ACTIVE embargoes owned by the party, in list order
ActiveEmbargoes(toks, party_name) ==
  {i \in 1..Len(toks) :
     /\ toks[i].owner = party_name
     /\ toks[i].state = "ACTIVE"
     /\ TokenTemplates[toks[i].template].token_type = "EMBARGO"}

\* variant: the ACTION entry is written when the call is over
Permitted_LogsLast(party_name, action, kwargs, uid, ps, arts, hp, toks, hist, pv) ==
  LET w0 == [artifacts |-> arts, heap |-> hp, tokens |-> toks, history |-> hist,
             kwargs |-> kwargs, status |-> "run"]
      w1 == ApplyBuiltin(w0, action, party_name, uid)
      w2 == IF w1.status = "run" /\ IsDelegation(action)
            THEN PerformDelegation(w1, action, party_name, ps) ELSE w1
      w3 == IF w2.status = "run" /\ IsSpeechAct(action)
            THEN MintTokens(w2, action.tokens, 1, party_name, uid, ps) ELSE w2
      w4 == IF w3.status = "run" /\ action.trigger_event # NoEvent
            THEN FireEvent(w3, action.trigger_event) ELSE w3
  IN [artifacts |-> w4.artifacts, heap |-> w4.heap, tokens |-> w4.tokens,
      history |-> Append(w4.history, LogAction(party_name, action.name,
                                               ReprArgs(kwargs, ps, hp))),
      policy_values |-> pv,
      guard_evaluated |-> action.guard # NoGuard,
      exit |-> IF w4.status = "raised" THEN "raised"
               ELSE IF w4.status = "returned" THEN "delegation_refused"
               ELSE "permitted"]

\* variant: the trigger event is fired before the tokens are minted
Permitted_FiresFirst(party_name, action, kwargs, uid, ps, arts, hp, toks, hist, pv) ==
  LET w0 == [artifacts |-> arts, heap |-> hp, tokens |-> toks,
             history |-> Append(hist, LogAction(party_name, action.name,
                                                ReprArgs(kwargs, ps, hp))),
             kwargs |-> kwargs, status |-> "run"]
      w1 == ApplyBuiltin(w0, action, party_name, uid)
      w2 == IF w1.status = "run" /\ IsDelegation(action)
            THEN PerformDelegation(w1, action, party_name, ps) ELSE w1
      w3 == IF w2.status = "run" /\ action.trigger_event # NoEvent
            THEN FireEvent(w2, action.trigger_event) ELSE w2
      w4 == IF w3.status = "run" /\ IsSpeechAct(action)
            THEN MintTokens(w3, action.tokens, 1, party_name, uid, ps) ELSE w3
  IN [artifacts |-> w4.artifacts, heap |-> w4.heap, tokens |-> w4.tokens,
      history |-> w4.history,
      policy_values |-> pv,
      guard_evaluated |-> action.guard # NoGuard,
      exit |-> IF w4.status = "raised" THEN "raised"
               ELSE IF w4.status = "returned" THEN "delegation_refused"
               ELSE "permitted"]

\* engine.py 155-224: a permitted call, from the ACTION entry to the event;
\* pv is policy_values as the screens before it have left it
Permitted(party_name, action, kwargs, uid, ps, arts, hp, toks, hist, pv) ==
  LET w0 == [artifacts |-> arts, heap |-> hp, tokens |-> toks,
             history |-> Append(hist, LogAction(party_name, action.name,
                                                ReprArgs(kwargs, ps, hp))),
             kwargs |-> kwargs, status |-> "run"]
      w1 == ApplyBuiltin(w0, action, party_name, uid)
      w2 == IF w1.status = "run" /\ IsDelegation(action)
            THEN PerformDelegation(w1, action, party_name, ps) ELSE w1
      w3 == IF w2.status = "run" /\ IsSpeechAct(action)
            THEN MintTokens(w2, action.tokens, 1, party_name, uid, ps) ELSE w2
      w4 == IF w3.status = "run" /\ action.trigger_event # NoEvent
            THEN FireEvent(w3, action.trigger_event) ELSE w3
  IN [artifacts |-> w4.artifacts, heap |-> w4.heap, tokens |-> w4.tokens,
      history |-> w4.history,
      policy_values |-> pv,
      guard_evaluated |-> action.guard # NoGuard,
      exit |-> IF w4.status = "raised" THEN "raised"
               ELSE IF w4.status = "returned" THEN "delegation_refused"
               ELSE "permitted"]

\* variant: the context is policy_values itself, updated in place
GuardContext_Shared(pv, party_name, kwargs) ==
  LET names == DOMAIN pv \cup {"self"} \cup {kwargs[i].key : i \in 1..Len(kwargs)}
      merged == [n \in names |->
                   IF DictHas(kwargs, n) THEN DictGet(kwargs, n)
                   ELSE IF n = "self" THEN PartyV(party_name)
                   ELSE pv[n]]
  IN [policy |-> merged, policy_values |-> merged]

\* engine.py 143-148: the guard's context is a new dict that starts from a
\* copy of policy_values; policy are the policy names as the guard reads
\* them, policy_values is the engine's dict once the context is built
GuardContext(pv, party_name, kwargs) ==
  [policy |-> [n \in DOMAIN pv |->
                 IF DictHas(kwargs, n) THEN DictGet(kwargs, n) ELSE pv[n]],
   policy_values |-> pv]

\* variant: the guard screen comes first, the embargo screen after it
perform_action_GuardFirst(party_name, action_name, kwargs, uid, ps, arts, hp, toks, hist, pv) ==
  LET same == [artifacts |-> arts, heap |-> hp, tokens |-> toks, history |-> hist,
               policy_values |-> pv, guard_evaluated |-> FALSE,
               exit |-> "permitted"]
  IN IF party_name \notin DOMAIN ps
     THEN [same EXCEPT !.exit = "party_not_found"]
     ELSE LET found == PartyGetAction(ps[party_name], action_name)
          IN IF found = <<>>
             THEN [same EXCEPT !.exit = "action_not_found"]
             ELSE LET action == found[1]
                      embargoes == ActiveEmbargoes(toks, party_name)
                      context == GuardContext(pv, party_name, kwargs)
                  IN IF /\ action.guard # NoGuard
                        /\ ~GuardEvaluate(action.guard, party_name, kwargs,
                                          context.policy, arts, hp)
                     THEN [same EXCEPT
                             !.policy_values = context.policy_values,
                             !.guard_evaluated = TRUE,
                             !.history = Append(hist,
                                LogActionProhibited(party_name, action.name,
                                                    <<"Guard failed", action.guard>>)),
                             !.exit = "guard_failed"]
                     ELSE IF embargoes # {}
                     THEN LET first == CHOOSE i \in embargoes : \A j \in embargoes : i <= j
                              reason == <<"Active embargo",
                                          TokenTemplates[toks[first].template].name>>
                          IN [same EXCEPT
                                !.guard_evaluated = action.guard # NoGuard,
                                !.history = Append(hist,
                                   LogActionProhibited(party_name, action_name, reason)),
                                !.exit = "embargo"]
                     ELSE Permitted(party_name, action, kwargs, uid,
                                    ps, arts, hp, toks, hist,
                                    IF action.guard # NoGuard
                                    THEN context.policy_values ELSE pv)

\* variant: a call the guard refuses leaves no entry in the trace
perform_action_SilentGuard(party_name, action_name, kwargs, uid, ps, arts, hp, toks, hist, pv) ==
  LET same == [artifacts |-> arts, heap |-> hp, tokens |-> toks, history |-> hist,
               policy_values |-> pv, guard_evaluated |-> FALSE,
               exit |-> "permitted"]
  IN IF party_name \notin DOMAIN ps
     THEN [same EXCEPT !.exit = "party_not_found"]
     ELSE LET found == PartyGetAction(ps[party_name], action_name)
          IN IF found = <<>>
             THEN [same EXCEPT !.exit = "action_not_found"]
             ELSE LET action == found[1]
                      embargoes == ActiveEmbargoes(toks, party_name)
                      context == GuardContext(pv, party_name, kwargs)
                  IN IF embargoes # {}
                     THEN LET first == CHOOSE i \in embargoes : \A j \in embargoes : i <= j
                              reason == <<"Active embargo",
                                          TokenTemplates[toks[first].template].name>>
                          IN [same EXCEPT
                                !.history = Append(hist,
                                   LogActionProhibited(party_name, action_name, reason)),
                                !.exit = "embargo"]
                     ELSE IF /\ action.guard # NoGuard
                             /\ ~GuardEvaluate(action.guard, party_name, kwargs,
                                               context.policy, arts, hp)
                     THEN [same EXCEPT
                             !.policy_values = context.policy_values,
                             !.guard_evaluated = TRUE,
                             !.exit = "guard_failed"]
                     ELSE Permitted(party_name, action, kwargs, uid,
                                    ps, arts, hp, toks, hist,
                                    IF action.guard # NoGuard
                                    THEN context.policy_values ELSE pv)

\* engine.py 111-224: Engine.perform_action as a function of the engine state
perform_action(party_name, action_name, kwargs, uid, ps, arts, hp, toks, hist, pv) ==
  LET same == [artifacts |-> arts, heap |-> hp, tokens |-> toks, history |-> hist,
               policy_values |-> pv, guard_evaluated |-> FALSE,
               exit |-> "permitted"]
  IN IF party_name \notin DOMAIN ps
     THEN [same EXCEPT !.exit = "party_not_found"]
     ELSE LET found == PartyGetAction(ps[party_name], action_name)
          IN IF found = <<>>
             THEN [same EXCEPT !.exit = "action_not_found"]
             ELSE LET action == found[1]
                      embargoes == ActiveEmbargoes(toks, party_name)
                      context == GuardContext(pv, party_name, kwargs)
                  IN IF embargoes # {}
                     THEN LET first == CHOOSE i \in embargoes : \A j \in embargoes : i <= j
                              reason == <<"Active embargo",
                                          TokenTemplates[toks[first].template].name>>
                          IN [same EXCEPT
                                !.history = Append(hist,
                                   LogActionProhibited(party_name, action_name, reason)),
                                !.exit = "embargo"]
                     ELSE IF /\ action.guard # NoGuard
                             /\ ~GuardEvaluate(action.guard, party_name, kwargs,
                                               context.policy, arts, hp)
                     THEN [same EXCEPT
                             !.policy_values = context.policy_values,
                             !.guard_evaluated = TRUE,
                             !.history = Append(hist,
                                LogActionProhibited(party_name, action.name,
                                                    <<"Guard failed", action.guard>>)),
                             !.exit = "guard_failed"]
                     ELSE Permitted(party_name, action, kwargs, uid,
                                    ps, arts, hp, toks, hist,
                                    IF action.guard # NoGuard
                                    THEN context.policy_values ELSE pv)

(***************************************************************************)
(* The driver's calls.                                                     *)
(***************************************************************************)
Init ==
  /\ parties = << >>
  /\ heap = << >>
  /\ artifacts = << >>
  /\ tokens = << >>
  /\ history = << >>
  /\ policy_values = PolicyRules
  /\ community = LibraryCommunity
  /\ lastCall = [op |-> "none"]
  /\ outcome = "none"

\* variant: role names that do not resolve are dropped from the list
create_party_SkipsUnknown(name, role_names, ps) ==
  IF name \in DOMAIN ps
  THEN [parties |-> ps, exit |-> "party_exists"]
  ELSE LET roles == SelectSeq([i \in 1..Len(role_names) |-> get_role(role_names[i])],
                              LAMBDA r : r # <<>>)
       IN [parties |->
             [n \in DOMAIN ps \cup {name} |->
                IF n = name
                THEN [name |-> name,
                      fulfills_roles |-> [i \in 1..Len(roles) |-> roles[i][1].name]]
                ELSE ps[n]],
           exit |-> "party_created"]

\* engine.py 36-50: Engine.create_party as a function of the parties map
create_party(name, role_names, ps) ==
  IF name \in DOMAIN ps
  THEN [parties |-> ps, exit |-> "party_exists"]
  ELSE LET roles == [i \in 1..Len(role_names) |-> get_role(role_names[i])]
       IN IF \E i \in 1..Len(roles) : roles[i] = <<>>
          THEN [parties |-> ps, exit |-> "role_not_found"]
          ELSE [parties |->
                  [n \in DOMAIN ps \cup {name} |->
                     IF n = name
                     THEN [name |-> name,
                           fulfills_roles |->
                             [i \in 1..Len(roles) |-> roles[i][1].name]]
                     ELSE ps[n]],
                exit |-> "party_created"]

CreateParty(name, role_names) ==
  /\ \E c \in {create_party(name, role_names, parties)} :
        /\ parties' = c.parties
        /\ outcome' = c.exit
  /\ lastCall' = [op |-> "create_party", name |-> name, role_names |-> role_names]
  /\ UNCHANGED <<heap, artifacts, tokens, history, policy_values, community>>

\* engine.py 52-66
CreateArtifactInstance(artifact_type, instance_id, properties) ==
  /\ \E c \in {create_artifact_instance(artifact_type, instance_id, properties,
                                          artifacts, heap)} :
        /\ Len(c.heap) <= MaxObjs
        /\ artifacts' = c.artifacts
        /\ heap' = c.heap
        /\ outcome' = c.exit
  /\ lastCall' = [op |-> "create_artifact_instance",
                  artifact_type |-> artifact_type, instance_id |-> instance_id,
                  properties |-> properties]
  /\ UNCHANGED <<parties, tokens, history, policy_values, community>>

\* decisions the tracer holds: the calls that got past the lookups
NumDecisions(hist) ==
  Cardinality({i \in 1..Len(hist) :
                 hist[i].event_type \in {"ACTION", "ACTION_PROHIBITED"}})

\* engine.py 111-224
PerformAction(party_name, action_name, kwargs, uid) ==
  /\ NumDecisions(history) < MaxCalls
  /\ \E r \in {perform_action(party_name, action_name, kwargs, uid,
                              parties, artifacts, heap, tokens, history, policy_values)} :
        /\ Len(r.heap) <= MaxObjs
        /\ artifacts' = r.artifacts
        /\ heap' = r.heap
        /\ tokens' = r.tokens
        /\ history' = r.history
        /\ policy_values' = r.policy_values
        /\ outcome' = r.exit
        /\ lastCall' = [op |-> "perform_action", party_name |-> party_name,
                        action_name |-> action_name, kwargs |-> kwargs,
                        guard_evaluated |-> r.guard_evaluated]
  /\ UNCHANGED <<parties, community>>

\* main.py 54: the driver marks a loan it holds overdue
SetOverdue(o) ==
  /\ heap[o].template = "Loan"
  /\ ~Truthy(GetAttr(heap[o], "isOverdue"))
  /\ heap' = [heap EXCEPT ![o].properties = DictSet(@, "isOverdue", BoolV(TRUE))]
  /\ lastCall' = [op |-> "set_overdue", ref |-> o]
  /\ outcome' = "overdue_set"
  /\ UNCHANGED <<parties, artifacts, tokens, history, policy_values, community>>

(***************************************************************************)
(* Inputs of the driver (main.py 21-75): the book and the parties of       *)
(* setup_world_state, created in a fixed order (actions may come between   *)
(* them), and for every action the keyword arguments the scenario passes,  *)
(* over every loan and party the driver can hold a reference to.           *)
(***************************************************************************)
PartyInputs ==
  << [name |-> "Alice", role_names |-> <<"Undergraduate", "Borrower">>],
     [name |-> "Libby", role_names |-> <<"Librarian">>],
     [name |-> "Bob",   role_names |-> <<"ProxyBorrower">>] >>

BookInput ==
  [artifact_type |-> "LibraryItem", instance_id |-> <<"book", 1>>,
   properties |-> <<KV("title", StrV("ODP")), KV("itemType", StrV("Book"))>>]

Refs(hp) == 1..Len(hp)
RefsOf(hp, template) == {o \in Refs(hp) : hp[o].template = template}

\* engine.parties.get(name): a registered party or None
PartyOrNone(ps) == {PartyV(n) : n \in DOMAIN ps} \cup {NoneV}

KwargsFor(action_name, ps, hp) ==
  IF action_name = "borrowItem"
  THEN {<<KV("item", ArtV(o))>> : o \in RefsOf(hp, "LibraryItem")}
       \cup (IF RefsOf(hp, "LibraryItem") = {} THEN {<<>>} ELSE {})
  ELSE IF action_name \in {"returnItem", "proxy_return_item", "fineBorrower"}
  THEN {<<>>} \cup {<<KV("loan", ArtV(o))>> : o \in RefsOf(hp, "Loan")}
  ELSE IF action_name = "authorizeProxy"
  THEN {<<>>} \cup {<<KV("agent", PartyV(n))>> : n \in DOMAIN ps}
  ELSE IF action_name = "return_item_delegation"
  THEN {<<KV("loan", ArtV(o)), KV("agent", a)>> :
          o \in RefsOf(hp, "Loan"), a \in PartyOrNone(ps)}
       \cup {<<KV("loan", ArtV(o))>> : o \in RefsOf(hp, "Loan")}
       \cup {<<KV("agent", StrV("Bob"))>>}
  ELSE {<<>>}

ActionNames ==
  {"borrowItem", "returnItem", "payFine", "return_item_delegation",
   "fineBorrower", "authorizeProxy", "waiveFine", "proxy_return_item"}

ActionsOf(party) == {a \in ActionNames : PartyGetAction(party, a) # <<>>}

\* uuid4 draws are taken to be fresh: the n-th instance gets suffix n
FreshUid(hp) == Len(hp) + 1

Register ==
  \E i \in 1..Len(PartyInputs) :
    /\ BookInput.instance_id \in DOMAIN artifacts
    /\ \A j \in 1..(i - 1) : PartyInputs[j].name \in DOMAIN parties
    /\ PartyInputs[i].name \notin DOMAIN parties
    /\ CreateParty(PartyInputs[i].name, PartyInputs[i].role_names)

Stock ==
  /\ BookInput.instance_id \notin DOMAIN artifacts
  /\ CreateArtifactInstance(BookInput.artifact_type, BookInput.instance_id,
                            BookInput.properties)

Act ==
  /\ NumDecisions(history) < MaxCalls
  /\ \E party_name \in DOMAIN parties :
       \E action_name \in ActionsOf(parties[party_name]) :
         \E kwargs \in KwargsFor(action_name, parties, heap) :
           PerformAction(party_name, action_name, kwargs, FreshUid(heap))

Overdue == \E o \in Refs(heap) : SetOverdue(o)

Next == Register \/ Stock \/ Act \/ Overdue

Spec == Init /\ [][Next]_vars

(***************************************************************************)
(* A faulty driver script (spec section 7, "driver misuse"): parties are   *)
(* registered in any order and more than once, with role lists that may    *)
(* name a role the community lacks, and actions are requested by callers   *)
(* that are not registered or under names their roles do not define.       *)
(***************************************************************************)
RoleListInputs ==
  {<<"Borrower", "ProxyBorrower">>, <<"ProxyBorrower", "Borrower">>,
   <<"Librarian">>, <<"Borrower", "Ghost">>}

ScriptParties == {"Alice", "Bob"}

ScriptCallers == {"Alice", "Bob", "Mallory"}

ScriptActions == {"borrowItem", "returnItem", "fly"}

RegisterAny ==
  \E name \in ScriptParties :
    \E role_names \in RoleListInputs : CreateParty(name, role_names)

ActAny ==
  /\ NumDecisions(history) < MaxCalls
  /\ \E party_name \in ScriptCallers :
       \E action_name \in ScriptActions :
         \E kwargs \in KwargsFor(action_name, parties, heap) :
           PerformAction(party_name, action_name, kwargs, FreshUid(heap))

NextMisuse == RegisterAny \/ Stock \/ ActAny

SpecMisuse == Init /\ [][NextMisuse]_vars

(***************************************************************************)
(* A driver that stocks carelessly (spec section 7, "driver misuse"): ids  *)
(* are used again, with other properties, and templates are named that the *)
(* community lacks, while Alice borrows and returns what is on the shelf   *)
(* and loans are entered again under their ids.                            *)
(***************************************************************************)
ArtifactTypeInputs == {"LibraryItem", "Gadget"}

ArtifactIdInputs == {<<"book", 1>>, <<"book", 2>>}

PropertyInputs ==
  {BookInput.properties,
   <<KV("title", StrV("TLA")), KV("itemType", StrV("Book"))>>}

StockAny ==
  \E artifact_type \in ArtifactTypeInputs :
    \E instance_id \in ArtifactIdInputs :
      \E properties \in PropertyInputs :
        CreateArtifactInstance(artifact_type, instance_id, properties)

Lend ==
  /\ NumDecisions(history) < MaxCalls
  /\ "Alice" \in DOMAIN parties
  /\ \E action_name \in {"borrowItem", "returnItem"} :
       \E kwargs \in KwargsFor(action_name, parties, heap) :
         PerformAction("Alice", action_name, kwargs, FreshUid(heap))

\* the driver enters a loan it holds a reference to again, under the loan's
\* id, as it is or marked overdue
Restock ==
  \E o \in RefsOf(heap, "Loan") :
    \E properties \in {heap[o].properties,
                        DictSet(heap[o].properties, "isOverdue", BoolV(TRUE))} :
      CreateArtifactInstance("Loan", heap[o].instance_id, properties)

NextStock == StockAny \/ Restock \/ Register \/ Lend

SpecStock == Init /\ [][NextStock]_vars

(***************************************************************************)
(* The scenario with uuid4 as it is: every call that builds an id takes    *)
(* whatever uuid.uuid4().hex[:6] yields, which may differ from run to run  *)
(* and may repeat an earlier draw.                                         *)
(***************************************************************************)
UuidDraws == {1, 2}

ActDraw ==
  /\ NumDecisions(history) < MaxCalls
  /\ \E party_name \in DOMAIN parties :
       \E action_name \in ActionsOf(parties[party_name]) :
         \E kwargs \in KwargsFor(action_name, parties, heap) :
           \E uid \in UuidDraws :
             PerformAction(party_name, action_name, kwargs, uid)

NextUuid == Register \/ Stock \/ ActDraw \/ Overdue

SpecUuid == Init /\ [][NextUuid]_vars

(***************************************************************************)
(* Engine._resolve_token_owner on its own: over parties registered with    *)
(* any of the role lists and artifacts whose properties hold parties, the  *)
(* method is called with every template, performer and short list of       *)
(* arguments; lastCall holds the call and outcome the name of the party    *)
(* it returns.                                                             *)
(***************************************************************************)
ResolveTokenOwner(template_name, performer, action_args) ==
  /\ lastCall' = [op |-> "resolve_token_owner", token_template |-> template_name,
                  performer |-> performer, action_args |-> action_args]
  /\ outcome' = resolve_token_owner(TokenTemplates[template_name], performer,
                                    action_args, parties, heap)
  /\ UNCHANGED <<parties, heap, artifacts, tokens, history, policy_values, community>>

\* properties that hold parties: a borrower after a plain value, or a
\* borrower and a witness
PartyPropertyInputs(ps) ==
  {<<KV("item", StrV("book")), KV("borrower", PartyV(a))>> : a \in DOMAIN ps}
  \cup {<<KV("borrower", PartyV(a)), KV("witness", PartyV(b))>> :
          a \in DOMAIN ps, b \in DOMAIN ps}

StockParties ==
  /\ Len(heap) < MaxObjs - 2
  /\ \E properties \in PartyPropertyInputs(parties) :
       CreateArtifactInstance("Loan", LoanId(FreshUid(heap)), properties)

ArgValueInputs(ps, hp) ==
  {PartyV(n) : n \in DOMAIN ps} \cup {ArtV(o) : o \in Refs(hp)} \cup {NoneV}

ArgInputs(ps, hp) ==
  {<<>>}
  \cup {<<KV("loan", a)>> : a \in ArgValueInputs(ps, hp)}
  \cup {<<KV("loan", a), KV("agent", b)>> :
          a \in ArgValueInputs(ps, hp), b \in ArgValueInputs(ps, hp)}

OwnerTemplateInputs == {"return_item", "pay_fine", "proxy_permit"}

Resolve ==
  \E template_name \in OwnerTemplateInputs :
    \E performer \in DOMAIN parties :
      \E action_args \in ArgInputs(parties, heap) :
        ResolveTokenOwner(template_name, performer, action_args)

NextOwner == RegisterAny \/ StockParties \/ Resolve

SpecOwner == Init /\ [][NextOwner]_vars

(***************************************************************************)
(* EventExpression.evaluate on its own: one call on an expression of depth *)
(* at most two over two events, with any operator string and up to two     *)
(* operands per node, and on any set of occurred events.  lastCall holds   *)
(* the arguments as passed and as the call leaves them, outcome the repr   *)
(* of the boolean returned.                                                *)
(***************************************************************************)
EventInputs == {"ItemReturned", "FinePaid"}

OperatorInputs == {"None", "AND", "OR", "XOR"}

\* the lists of up to two elements of a set
ShortLists(S) == {<<>>} \cup {<<a>> : a \in S} \cup {<<a, b>> : a \in S, b \in S}

FlatExprInputs ==
  {[op |-> o, operands |-> l] :
     o \in OperatorInputs, l \in ShortLists({EvOperand(e) : e \in EventInputs})}

ExprInputs ==
  {[op |-> o, operands |-> l] :
     o \in OperatorInputs,
     l \in ShortLists({EvOperand(e) : e \in EventInputs}
                       \cup {ExprOperand(x) : x \in FlatExprInputs})}

EvaluateExpression(x, occurred) ==
  /\ lastCall' = [op |-> "evaluate", expression |-> x, occurred |-> occurred,
                  expression_after |-> x, occurred_after |-> occurred]
  /\ outcome' = IF evaluate(x, occurred) THEN "True" ELSE "False"
  /\ UNCHANGED <<parties, heap, artifacts, tokens, history, policy_values, community>>

Evaluate ==
  /\ lastCall.op = "none"
  /\ \E x \in ExprInputs :
       \E occurred \in SUBSET EventInputs : EvaluateExpression(x, occurred)

NextEvents == Evaluate

SpecEvents == Init /\ [][NextEvents]_vars

(***************************************************************************)
(* Model assembly: a community populated with up to two roles, artifacts,  *)
(* events and policies, names free to repeat, is indexed as hydrate() does *)
(* (loader/hydrator.py); on the model hydrate() returns an Engine is       *)
(* constructed and names are looked up.  The n-th element of a list is     *)
(* told from the others by its body (a policy: by its initial value).      *)
(***************************************************************************)
RoleNameInputs == {"Borrower", "Librarian"}
ArtifactNameInputs == {"Loan", "Fine"}
EventNameInputs == {"ItemBorrowed", "ItemReturned"}
PolicyNameInputs == {"max_loans", "loan_period"}

\* the lists of up to two named elements
ElementLists(names) ==
  {<< >>} \cup {<<[name |-> a, body |-> 1]>> : a \in names}
          \cup {<<[name |-> a, body |-> 1], [name |-> b, body |-> 2]>> :
                  a \in names, b \in names}

PolicyLists ==
  {<< >>} \cup {<<Policy(a, 1)>> : a \in PolicyNameInputs}
          \cup {<<Policy(a, 1), Policy(b, 2)>> :
                  a \in PolicyNameInputs, b \in PolicyNameInputs}

CommunityInputs ==
  {Community(roles, arts, events, rules) :
     roles \in ElementLists(RoleNameInputs),
     arts \in ElementLists(ArtifactNameInputs),
     events \in ElementLists(EventNameInputs),
     rules \in PolicyLists}

InitCommunity ==
  /\ parties = << >>
  /\ heap = << >>
  /\ artifacts = << >>
  /\ tokens = << >>
  /\ history = << >>
  /\ policy_values = << >>
  /\ community \in CommunityInputs
  /\ lastCall = [op |-> "none"]
  /\ outcome = "none"

\* hydrate(): comm.build_indexes(), once
BuildIndexes ==
  /\ lastCall.op = "none"
  /\ LET r == build_indexes(community)
     IN /\ community' = r.community
        /\ outcome' = IF r.raised THEN "raised" ELSE "returned"
  /\ lastCall' = [op |-> "build_indexes"]
  /\ UNCHANGED <<parties, heap, artifacts, tokens, history, policy_values>>

\* Engine(model) on the model hydrate() returned
NewEngine ==
  /\ lastCall.op = "build_indexes"
  /\ outcome = "returned"
  /\ policy_values' = EnginePolicyValues(community.rules)
  /\ lastCall' = [op |-> "Engine"]
  /\ outcome' = "constructed"
  /\ UNCHANGED <<parties, heap, artifacts, tokens, history, community>>

\* the community is indexed and no lookup is pending on a failed build
Indexed ==
  \/ lastCall.op = "build_indexes" /\ outcome = "returned"
  \/ lastCall.op \in {"Engine", "get_role", "get_artifact", "get_event"}

Lookup(op, name, found) ==
  /\ lastCall' = [op |-> op, name |-> name]
  /\ outcome' = found
  /\ UNCHANGED <<parties, heap, artifacts, tokens, history, policy_values, community>>

GetRole ==
  /\ Indexed
  /\ \E name \in RoleNameInputs \cup {"Visitor"} :
       Lookup("get_role", name, Community_get_role(community, name))

GetArtifact ==
  /\ Indexed
  /\ \E name \in ArtifactNameInputs \cup {"LibraryItem"} :
       Lookup("get_artifact", name, Community_get_artifact(community, name))

GetEvent ==
  /\ Indexed
  /\ \E name \in EventNameInputs \cup {"FinePaid"} :
       Lookup("get_event", name, Community_get_event(community, name))

NextCommunity == BuildIndexes \/ NewEngine \/ GetRole \/ GetArtifact \/ GetEvent

SpecCommunity == InitCommunity /\ [][NextCommunity]_vars

(***************************************************************************)
(* The functions a guard context carries, called on their own: the         *)
(* scenario of main.py, a driver that after setup_world_state may enter a  *)
(* loan without borrower or a fine itself (a fine without borrower, or     *)
(* with the first party as borrower and without isPaid or paid), and after *)
(* any call loanCount(p) and hasUnpaidFines(p) of _get_domain_functions()  *)
(* for a registered party p.  Unpaid fines and loans with a borrower are   *)
(* those the engine makes.                                                 *)
(***************************************************************************)
LedgerPropertyInputs ==
  {<< >>,
   <<KV("borrower", PartyV(PartyInputs[1].name))>>,
   <<KV("borrower", PartyV(PartyInputs[1].name)), KV("isPaid", BoolV(TRUE))>>}

\* entered once, between setup_world_state and the first action
EnterLedger ==
  /\ Len(heap) = 1
  /\ \A i \in 1..Len(PartyInputs) : PartyInputs[i].name \in DOMAIN parties
  /\ NumDecisions(history) = 0
  /\ \/ CreateArtifactInstance("Loan", LoanId(FreshUid(heap)), << >>)
     \/ \E properties \in LedgerPropertyInputs :
          CreateArtifactInstance("Fine", FineId(FreshUid(heap)), properties)

DomainFunctions(party_name) ==
  /\ lastCall' = [op |-> "domain_functions", p |-> party_name]
  /\ outcome' = [loanCount |-> loan_count(PartyV(party_name), artifacts, heap),
                 hasUnpaidFines |-> has_unpaid_fines(PartyV(party_name), artifacts, heap)]
  /\ UNCHANGED <<parties, heap, artifacts, tokens, history, policy_values, community>>

Probe == \E party_name \in DOMAIN parties : DomainFunctions(party_name)

NextDomain == Register \/ Stock \/ Act \/ Overdue \/ EnterLedger \/ Probe

SpecDomain == Init /\ [][NextDomain]_vars

(***************************************************************************)
(* Engine._fire_event on its own: one firing of one of two events over a   *)
(* list of two tokens, each in any state and of any template whose         *)
(* activation trigger is absent or one of the events and whose finish      *)
(* expression is absent, a leaf, or the AND or the OR of the two leaves.   *)
(* lastCall holds the event and the tokens (template and state) before the *)
(* firing, outcome the states after it.                                    *)
(***************************************************************************)
TokenStates == {"INACTIVE", "ACTIVE", "DISCHARGED"}

FinishInputs ==
  {Leaf(e) : e \in EventInputs}
  \cup {AndExpr(<<ExprOperand(Leaf("ItemReturned")), ExprOperand(Leaf("FinePaid"))>>),
         OrExpr(<<ExprOperand(Leaf("ItemReturned")), ExprOperand(Leaf("FinePaid"))>>)}

TemplateInputs ==
  {DeonticToken("BURDEN", "burden", NoRole, trigger, FALSE, NoExpr) :
     trigger \in EventInputs \cup {NoEvent}}
  \cup {DeonticToken("BURDEN", "burden", NoRole, trigger, TRUE, finish) :
          trigger \in EventInputs \cup {NoEvent}, finish \in FinishInputs}

TokenInputs == {[template |-> t, state |-> s] : t \in TemplateInputs, s \in TokenStates}

\* variant: a finish expression is evaluated against the fired event together
\* with the event of the firing before it
FireOn_Remembers(toks, event) ==
  LET occurred == IF lastCall.op = "fire_event" THEN {event, lastCall.event} ELSE {event}
  IN /\ lastCall' = [op |-> "fire_event", event |-> event, tokens |-> toks]
     /\ outcome' = [i \in 1..Len(toks) |->
                      IF toks[i].state = "INACTIVE" /\ toks[i].template.activation_trigger = event
                      THEN "ACTIVE"
                      ELSE IF /\ toks[i].state = "ACTIVE"
                              /\ toks[i].template.has_finish
                              /\ evaluate(toks[i].template.finish_expression, occurred)
                      THEN "DISCHARGED"
                      ELSE toks[i].state]
     /\ UNCHANGED <<parties, heap, artifacts, tokens, history, policy_values, community>>

FireOn(toks, event) ==
  /\ lastCall' = [op |-> "fire_event", event |-> event, tokens |-> toks]
  /\ outcome' = [i \in 1..Len(toks) |->
                   StateAfterEvent(toks[i].template, toks[i].state, event)]
  /\ UNCHANGED <<parties, heap, artifacts, tokens, history, policy_values, community>>

Fire ==
  /\ lastCall.op = "none"
  /\ \E first \in TokenInputs, second \in TokenInputs, event \in EventInputs :
       FireOn(<<first, second>>, event)

NextFire == Fire

SpecFire == Init /\ [][NextFire]_vars

(***************************************************************************)
(* Engine._fire_event again and again: two tokens as minting leaves them,  *)
(* INACTIVE, of any of the templates above, and then any sequence of       *)
(* firings of the two events.  lastCall holds the last event and the       *)
(* tokens before it, outcome the states after it.                          *)
(***************************************************************************)
FireFirst ==
  /\ lastCall.op = "none"
  /\ \E first \in TemplateInputs, second \in TemplateInputs, event \in EventInputs :
       FireOn(<<[template |-> first, state |-> "INACTIVE"],
                [template |-> second, state |-> "INACTIVE"]>>, event)

FireNext ==
  /\ lastCall.op = "fire_event"
  /\ \E event \in EventInputs :
       FireOn([i \in 1..Len(outcome) |-> [lastCall.tokens[i] EXCEPT !.state = outcome[i]]],
              event)

NextFinish == FireFirst \/ FireNext

SpecFinish == Init /\ [][NextFinish]_vars

(***************************************************************************)
(* The scenario of main.py with a driver that, after stocking the book and *)
(* registering the first party, may enter a loan of that party itself,     *)
(* already overdue: fines, waivers and what the fined party does next      *)
(* fit in the calls of a run.                                              *)
(***************************************************************************)
EnterLoan ==
  /\ Len(heap) = 1
  /\ BookInput.instance_id \in DOMAIN artifacts
  /\ PartyInputs[1].name \in DOMAIN parties
  /\ CreateArtifactInstance("Loan", LoanId(FreshUid(heap)),
                            <<KV("item", ArtV(artifacts[BookInput.instance_id])),
                              KV("borrower", PartyV(PartyInputs[1].name)),
                              KV("isOverdue", BoolV(TRUE))>>)

NextEmbargo == Register \/ Stock \/ EnterLoan \/ Act

SpecEmbargo == Init /\ [][NextEmbargo]_vars

(***************************************************************************)
(* The scenario with the first party registered under its two roles in     *)
(* either order, and a driver that may enter an overdue loan of that party *)
(* itself: both roles define borrowItem, with and without a guard.         *)
(***************************************************************************)
\* create_party in the scenario's order; the first party's two roles may
\* come in either order
RegisterOrdered ==
  \E i \in 1..Len(PartyInputs) :
    /\ BookInput.instance_id \in DOMAIN artifacts
    /\ \A j \in 1..(i - 1) : PartyInputs[j].name \in DOMAIN parties
    /\ PartyInputs[i].name \notin DOMAIN parties
    /\ \E role_names \in {PartyInputs[i].role_names}
                          \cup (IF i = 1
                                THEN {<<PartyInputs[1].role_names[2],
                                        PartyInputs[1].role_names[1]>>}
                                ELSE {}) :
         CreateParty(PartyInputs[i].name, role_names)

\* CommunityRole.get_action called on its own, before the run, on a role
\* whose two actions may bear one name
RoleLookup ==
  /\ lastCall.op = "none"
  /\ \E a \in {"borrowItem", "returnItem"}, b \in {"borrowItem", "returnItem"},
        action_name \in {"borrowItem", "returnItem", "payFine"} :
       LET role == [name |-> "Member",
                    actions |-> <<Action(a, "SpeechAct", NoGuard, "ItemBorrowed",
                                         <<"return_item">>, "", NoRole),
                                  Action(b, "BasicAction", "loan.isOverdue",
                                         "ItemReturned", <<>>, "", NoRole)>>]
       IN /\ lastCall' = [op |-> "get_action", role |-> role, action_name |-> action_name]
          /\ outcome' = RoleGetAction(role, action_name)
  /\ UNCHANGED <<parties, heap, artifacts, tokens, history, policy_values, community>>

NextRoles == RegisterOrdered \/ Stock \/ EnterLoan \/ Act \/ RoleLookup

SpecRoles == Init /\ [][NextRoles]_vars

(***************************************************************************)
(* The embargo screen against any population of tokens: the library's      *)
(* embargo is activated by the call that mints it, so the engine of the    *)
(* scenario never holds an INACTIVE embargo between two calls.  Here the   *)
(* driver, once the parties are registered, appends to engine.tokens three *)
(* tokens of any type, owner and state, and then makes one call.           *)
(***************************************************************************)
EnterTokens ==
  /\ tokens = <<>>
  /\ NumDecisions(history) = 0
  /\ \A i \in 1..Len(PartyInputs) : PartyInputs[i].name \in DOMAIN parties
  /\ \E entered \in [1..3 -> [template : {"borrow_ban", "pay_fine", "proxy_permit"},
                              owner : {PartyInputs[1].name, PartyInputs[3].name},
                              state : TokenStates]] :
       /\ tokens' = [i \in 1..3 |->
                       [DeonticTokenInstance(entered[i].template, entered[i].owner,
                                             TokenId(0, i), <<>>)
                          EXCEPT !.state = entered[i].state]]
       /\ lastCall' = [op |-> "enter_tokens", tokens |-> entered]
       /\ outcome' = "entered"
  /\ UNCHANGED <<parties, heap, artifacts, history, policy_values, community>>

ActOnce ==
  /\ NumDecisions(history) = 0
  /\ Act

NextScreen == Register \/ Stock \/ EnterTokens \/ ActOnce

SpecScreen == Init /\ [][NextScreen]_vars

(***************************************************************************)
(* Vocabulary of the properties: what a step's call was asked to do, read  *)
(* off the state before the step and the call's arguments.                 *)
(***************************************************************************)
\* the step is a perform_action call of a registered party under an action
\* name that one of the party's roles defines
DefinesAction(party, action_name) ==
  \E r \in 1..Len(party.fulfills_roles) :
    \E i \in 1..Len(Roles) :
      /\ Roles[i].name = party.fulfills_roles[r]
      /\ \E a \in 1..Len(Roles[i].actions) : Roles[i].actions[a].name = action_name

KnownCall ==
  /\ lastCall'.op = "perform_action"
  /\ lastCall'.party_name \in DOMAIN parties
  /\ DefinesAction(parties[lastCall'.party_name], lastCall'.action_name)

\* the action the call resolves to
CalledAction == PartyGetAction(parties[lastCall'.party_name], lastCall'.action_name)[1]

\* the party owns a token that is ACTIVE and of type EMBARGO
HoldsActiveEmbargo(toks, party_name) ==
  \E i \in 1..Len(toks) :
    /\ toks[i].owner = party_name
    /\ toks[i].state = "ACTIVE"
    /\ TokenTemplates[toks[i].template].token_type = "EMBARGO"

\* the called action has a guard that evaluates to false or raises
GuardRefuses ==
  /\ CalledAction.guard # NoGuard
  /\ EvalGuard(CalledAction.guard, lastCall'.party_name, lastCall'.kwargs,
               policy_values, artifacts, heap) \in {"false", "error"}

\* the entries the step appended to the trace
Appended == SubSeq(history', Len(history) + 1, Len(history'))

AppendedTypes == {Appended[i].event_type : i \in 1..Len(Appended)}

\* the tokens the step minted
Minted == SubSeq(tokens', Len(tokens) + 1, Len(tokens'))

\* index of the last ACTION / ACTION_PROHIBITED entry: the entries from
\* there on were written by the last call that reached a decision
LastDecision(hist) ==
  LET ds == {i \in 1..Len(hist) :
               hist[i].event_type \in {"ACTION", "ACTION_PROHIBITED"}}
  IN IF ds = {} THEN 0 ELSE CHOOSE i \in ds : \A j \in ds : j <= i

\* the tokens a Delegation call is entitled to transfer: ACTIVE, owned by
\* the performer, named token_name, minted in the context of the same loan
Transferable(toks, party_name, action, kwargs, hp) ==
  {i \in 1..Len(toks) :
     /\ toks[i].owner = party_name
     /\ toks[i].state = "ACTIVE"
     /\ toks[i].template = action.token_name
     /\ ValEq(DictGet(toks[i].context, "loan"), DictGet(kwargs, "loan"), hp)}

\* the call is a Delegation that gets past the embargo and guard screens
DelegationRuns ==
  /\ KnownCall
  /\ IsDelegation(CalledAction)
  /\ ~HoldsActiveEmbargo(tokens, lastCall'.party_name)
  /\ ~GuardRefuses

\* the agent argument is a Party that fulfils the role the action names
AgentQualifies ==
  /\ DictGet(lastCall'.kwargs, "agent").k = "party"
  /\ \E r \in 1..Len(parties[DictGet(lastCall'.kwargs, "agent").v].fulfills_roles) :
       parties[DictGet(lastCall'.kwargs, "agent").v].fulfills_roles[r]
         = CalledAction.agent

\* a Delegation whose preconditions all hold: the transfer takes place
SuccessfulDelegation ==
  /\ DelegationRuns
  /\ AgentQualifies
  /\ Transferable(tokens, lastCall'.party_name, CalledAction,
                  lastCall'.kwargs, heap) # {}

(***************************************************************************)
(* C1. Every token's states form a prefix of INACTIVE, ACTIVE, DISCHARGED: *)
(* a call never removes or reorders tokens, moves a token at most one      *)
(* state forward (never backwards, never from INACTIVE to DISCHARGED), and *)
(* a token minted by the call is INACTIVE or, activated by the call's own  *)
(* event, ACTIVE when the call ends.                                       *)
(***************************************************************************)
C1_TokenMonotonic ==
  [][/\ Len(tokens') >= Len(tokens)
     /\ \A i \in 1..Len(tokens) :
          /\ tokens'[i].instance_id = tokens[i].instance_id
          /\ <<tokens[i].state, tokens'[i].state>> \in
               {<<"INACTIVE", "INACTIVE">>, <<"INACTIVE", "ACTIVE">>,
                <<"ACTIVE", "ACTIVE">>, <<"ACTIVE", "DISCHARGED">>,
                <<"DISCHARGED", "DISCHARGED">>}
     /\ \A i \in 1..Len(Minted) : Minted[i].state \in {"INACTIVE", "ACTIVE"}]_vars

\* C1 witness: a token has gone through all three states, as the trace records
C1_Witness ==
  \E i \in 1..Len(tokens) :
    /\ tokens[i].state = "DISCHARGED"
    /\ \E j \in 1..Len(history) : \E k \in (j + 1)..Len(history) :
         /\ history[j].event_type = "TOKEN_STATE_CHANGE"
         /\ history[j].token_id = tokens[i].instance_id
         /\ history[j].new_state = "ACTIVE"
         /\ history[k].event_type = "TOKEN_STATE_CHANGE"
         /\ history[k].token_id = tokens[i].instance_id
         /\ history[k].new_state = "DISCHARGED"

(***************************************************************************)
(* C2. A perform_action call of a known party and action, made while the   *)
(* party owns an ACTIVE token of type EMBARGO, appends exactly one entry,  *)
(* an ACTION_PROHIBITED for that party, and so no ACTION entry, whatever   *)
(* the variant or the guard of the action.                                 *)
(***************************************************************************)
C2_EmbargoBlocks ==
  [][(KnownCall /\ HoldsActiveEmbargo(tokens, lastCall'.party_name))
       => /\ Len(Appended) = 1
          /\ SubSeq(history', 1, Len(history)) = history
          /\ Appended[1].event_type = "ACTION_PROHIBITED"
          /\ Appended[1].party = lastCall'.party_name
          /\ "ACTION" \notin AppendedTypes]_vars

\* C2 witness: an embargoed party was refused a guardless Delegation
C2_Witness ==
  /\ lastCall.op = "perform_action"
  /\ lastCall.action_name = "return_item_delegation"
  /\ outcome = "embargo"
  /\ HoldsActiveEmbargo(tokens, lastCall.party_name)
  /\ history[Len(history)].event_type = "ACTION_PROHIBITED"

(***************************************************************************)
(* C3. A call whose action has a guard that evaluates to false or raises   *)
(* mints no token and appends no TOKEN_CREATE entry, has no built-in       *)
(* effect (no Loan or Fine created, no artifact deleted, no property       *)
(* written) and fires no event (no token changes state).                   *)
(***************************************************************************)
C3_GuardClosure ==
  [][(KnownCall /\ GuardRefuses)
       => /\ tokens' = tokens
          /\ artifacts' = artifacts
          /\ heap' = heap
          /\ "TOKEN_CREATE" \notin AppendedTypes
          /\ "TOKEN_STATE_CHANGE" \notin AppendedTypes]_vars

\* C3 witness: a guard that raised (fineBorrower without a loan) refused the
\* call, after a guard that was false (payFine without a fine) refused another
C3_Witness ==
  /\ lastCall.op = "perform_action"
  /\ lastCall.action_name = "fineBorrower"
  /\ ~DictHas(lastCall.kwargs, "loan")
  /\ outcome = "guard_failed"
  /\ \E j \in 1..Len(history) :
       /\ history[j].event_type = "ACTION_PROHIBITED"
       /\ history[j].action_name = "payFine"
       /\ history[j].reason = <<"Guard failed", "hasUnpaidFines(self)">>

(***************************************************************************)
(* C4 as the specification states it: a successful Delegation changes the  *)
(* owner of exactly one token and leaves the number of tokens and the      *)
(* state and template of every token as they were.                         *)
(***************************************************************************)
C4_DelegationConservation ==
  [][SuccessfulDelegation
       => /\ Len(tokens') = Len(tokens)
          /\ Cardinality({i \in 1..Len(tokens) :
                            tokens'[i].owner # tokens[i].owner}) = 1
          /\ \A i \in 1..Len(tokens) :
               /\ tokens'[i].state = tokens[i].state
               /\ tokens'[i].template = tokens[i].template]_vars

(***************************************************************************)
(* C4 amended. A successful Delegation mints no token and sets the owner   *)
(* of one token, the first transferable one, to the agent (which changes   *)
(* nothing when the performer names itself agent); every other owner and   *)
(* every template, id and context stay; the states are those the firing of *)
(* the action's trigger_event leaves, unchanged when it has none.          *)
(***************************************************************************)
C4_DelegationTransfer ==
  [][SuccessfulDelegation
       => LET hits == Transferable(tokens, lastCall'.party_name, CalledAction,
                                   lastCall'.kwargs, heap)
              first == CHOOSE i \in hits : \A j \in hits : i <= j
              agent == DictGet(lastCall'.kwargs, "agent").v
              event == CalledAction.trigger_event
          IN /\ Len(tokens') = Len(tokens)
             /\ "TOKEN_CREATE" \notin AppendedTypes
             /\ \A i \in 1..Len(tokens) :
                  /\ tokens'[i].template = tokens[i].template
                  /\ tokens'[i].instance_id = tokens[i].instance_id
                  /\ tokens'[i].context = tokens[i].context
                  /\ tokens'[i].owner = IF i = first THEN agent ELSE tokens[i].owner
                  /\ tokens'[i].state =
                       IF event = NoEvent THEN tokens[i].state
                       ELSE TokenAfterEvent(tokens[i], event).state]_vars

\* C4 witness: the last call delegated Alice's return_item burden to Bob and
\* its event activated a waiting token
C4_Witness ==
  /\ lastCall.op = "perform_action"
  /\ lastCall.action_name = "return_item_delegation"
  /\ outcome = "permitted"
  /\ \E i \in 1..Len(tokens) :
       /\ tokens[i].template = "return_item"
       /\ tokens[i].owner = "Bob"
  /\ \E j \in (LastDecision(history) + 1)..Len(history) :
       /\ history[j].event_type = "TOKEN_STATE_CHANGE"
       /\ history[j].trigger_event = <<"delegated via", "return_item_delegation">>
  /\ \E j \in (LastDecision(history) + 1)..Len(history) :
       /\ history[j].event_type = "TOKEN_STATE_CHANGE"
       /\ history[j].trigger_event = <<"BurdenDelegated">>

(***************************************************************************)
(* C5. A token is created ACTIVE when its template has no                  *)
(* activation_trigger and INACTIVE when it has one: when the minting call  *)
(* ends, a token without a trigger is therefore not INACTIVE, and a token  *)
(* with one is INACTIVE or has been activated.                             *)
(***************************************************************************)
C5_CreationState ==
  [][\A i \in 1..Len(Minted) :
       IF TokenTemplates[Minted[i].template].activation_trigger = NoEvent
       THEN Minted[i].state \in {"ACTIVE", "DISCHARGED"}
       ELSE Minted[i].state \in {"INACTIVE", "ACTIVE"}]_vars

(***************************************************************************)
(* C6. A call denied by the embargo screen or by a failing guard leaves    *)
(* parties, artifacts (and their properties), tokens and policy_values as  *)
(* they were; it appends one ACTION_PROHIBITED entry that names the party, *)
(* the action and the reason: the embargo held, or the guard that failed.  *)
(***************************************************************************)
C6_DenialFrame ==
  [][(KnownCall /\ (HoldsActiveEmbargo(tokens, lastCall'.party_name) \/ GuardRefuses))
       => /\ UNCHANGED <<parties, artifacts, heap, tokens, policy_values>>
          /\ Len(Appended) = 1
          /\ SubSeq(history', 1, Len(history)) = history
          /\ Appended[1].event_type = "ACTION_PROHIBITED"
          /\ Appended[1].party = lastCall'.party_name
          /\ Appended[1].action_name = lastCall'.action_name
          /\ IF HoldsActiveEmbargo(tokens, lastCall'.party_name)
             THEN /\ Len(Appended[1].reason) = 2
                  /\ Appended[1].reason[1] = "Active embargo"
                  /\ \E i \in 1..Len(tokens) :
                       /\ tokens[i].owner = lastCall'.party_name
                       /\ tokens[i].state = "ACTIVE"
                       /\ TokenTemplates[tokens[i].template].token_type = "EMBARGO"
                       /\ TokenTemplates[tokens[i].template].name = Appended[1].reason[2]
             ELSE Appended[1].reason = <<"Guard failed", CalledAction.guard>>]_vars

\* C6 witness: a guard denial in a state that holds parties, a loan and tokens
C6_Witness ==
  /\ lastCall.op = "perform_action"
  /\ outcome = "guard_failed"
  /\ history[Len(history)].event_type = "ACTION_PROHIBITED"
  /\ history[Len(history)].party = lastCall.party_name
  /\ Len(tokens) > 0
  /\ DOMAIN artifacts # {}

(***************************************************************************)
(* C7. A Delegation that gets past the screens with a Party as agent, but  *)
(* whose agent lacks the role action.agent or whose performer owns no      *)
(* transferable token, is a normative denial: the call appends one         *)
(* ACTION_PROHIBITED entry and no ACTION entry, and artifacts and tokens   *)
(* are unchanged.                                                          *)
(***************************************************************************)
C7_DelegationDenial ==
  [][(/\ DelegationRuns
      /\ DictGet(lastCall'.kwargs, "agent").k = "party"
      /\ \/ ~AgentQualifies
         \/ Transferable(tokens, lastCall'.party_name, CalledAction,
                         lastCall'.kwargs, heap) = {})
       => /\ "ACTION_PROHIBITED" \in AppendedTypes
          /\ "ACTION" \notin AppendedTypes
          /\ artifacts' = artifacts
          /\ heap' = heap
          /\ tokens' = tokens]_vars

(***************************************************************************)
(* C8. A Delegation called with an agent that is absent or is not a Party  *)
(* returns normally: no exception reaches the driver and no token changes  *)
(* owner.                                                                  *)
(***************************************************************************)
C8_AgentNotParty ==
  [][(/\ KnownCall
      /\ IsDelegation(CalledAction)
      /\ DictGet(lastCall'.kwargs, "agent").k # "party")
       => /\ outcome' # "raised"
          /\ Len(tokens') = Len(tokens)
          /\ \A i \in 1..Len(tokens) : tokens'[i].owner = tokens[i].owner]_vars

(***************************************************************************)
(* C9. perform_action for a party name that is not registered, or an       *)
(* action name that none of the party's roles defines, returns without     *)
(* raising and leaves parties, artifacts, tokens, policy_values and the    *)
(* trace unchanged.                                                        *)
(***************************************************************************)
C9_UnknownIgnored ==
  [][(/\ lastCall'.op = "perform_action"
      /\ \/ lastCall'.party_name \notin DOMAIN parties
         \/ ~DefinesAction(parties[lastCall'.party_name], lastCall'.action_name))
       => /\ outcome' # "raised"
          /\ UNCHANGED <<parties, artifacts, heap, tokens, policy_values, history>>]_vars

\* C9 witness: a registered party asked for an action another role defines,
\* in a state with a trace and tokens to leave alone
C9_Witness ==
  /\ lastCall.op = "perform_action"
  /\ lastCall.party_name \in DOMAIN parties
  /\ lastCall.action_name = "borrowItem"
  /\ outcome = "action_not_found"
  /\ Len(history) > 0
  /\ Len(tokens) > 0

(***************************************************************************)
(* C10. create_party registers a Party that fulfils exactly the named      *)
(* roles in the given order when the name is free and every role name is a *)
(* role of the community, and leaves the other parties alone; otherwise it *)
(* returns without raising and the parties map is unchanged.               *)
(***************************************************************************)
C10_CreateParty ==
  [][lastCall'.op = "create_party"
       => /\ outcome' # "raised"
          /\ IF /\ lastCall'.name \notin DOMAIN parties
                /\ \A i \in 1..Len(lastCall'.role_names) :
                     \E r \in 1..Len(Roles) : Roles[r].name = lastCall'.role_names[i]
             THEN /\ DOMAIN parties' = DOMAIN parties \cup {lastCall'.name}
                  /\ parties'[lastCall'.name].name = lastCall'.name
                  /\ parties'[lastCall'.name].fulfills_roles = lastCall'.role_names
                  /\ \A n \in DOMAIN parties : parties'[n] = parties[n]
             ELSE parties' = parties]_vars

\* C10 witness: a name that is taken was registered again with other roles,
\* and the party kept the roles it had
C10_Witness ==
  /\ lastCall.op = "create_party"
  /\ outcome = "party_exists"
  /\ lastCall.name \in DOMAIN parties
  /\ parties[lastCall.name].fulfills_roles # lastCall.role_names
  /\ Len(parties[lastCall.name].fulfills_roles) = 2

(***************************************************************************)
(* C11  create_artifact_instance adds exactly one instance, of the named   *)
(* template and with the given properties, under an id that is free when   *)
(* the template exists; on an id in use or a template the community lacks  *)
(* it returns without raising and leaves the artifacts map, the instance   *)
(* already under that id and its properties as they were.                  *)
(***************************************************************************)
C11_CreateArtifact ==
  [][lastCall'.op = "create_artifact_instance" =>
       LET id == lastCall'.instance_id
       IN /\ outcome' # "raised"
          /\ IF id \notin DOMAIN artifacts /\ lastCall'.artifact_type \in ArtifactTemplates
             THEN /\ DOMAIN artifacts' = DOMAIN artifacts \cup {id}
                  /\ \A j \in DOMAIN artifacts : artifacts'[j] = artifacts[j]
                  /\ artifacts'[id] \notin Refs(heap)
                  /\ heap'[artifacts'[id]] =
                       [instance_id |-> id, template |-> lastCall'.artifact_type,
                        properties |-> lastCall'.properties]
                  /\ SubSeq(heap', 1, Len(heap)) = heap
                  /\ Len(heap') = Len(heap) + 1
             ELSE /\ artifacts' = artifacts
                  /\ heap' = heap]_vars

\* a call under an id in use, with other properties than the instance has,
\* has returned and the instance still has its own
C11_Witness ==
  /\ lastCall.op = "create_artifact_instance"
  /\ outcome = "artifact_exists"
  /\ lastCall.artifact_type \in ArtifactTemplates
  /\ heap[artifacts[lastCall.instance_id]].properties # lastCall.properties
  /\ Len(history) > 0

(***************************************************************************)
(* C12  policy_values is fixed at construction: after any sequence of      *)
(* create_party, create_artifact_instance and perform_action calls,        *)
(* permitted, denied or faulty, guard evaluations over a context built     *)
(* from it included, it holds the initial value of every policy of the     *)
(* community and nothing else.                                             *)
(***************************************************************************)
C12_PolicyFixed == policy_values = PolicyRules

\* a guard that reads the policy max_loans has let one call through and
\* refused the next
C12_Witness ==
  /\ lastCall.op = "perform_action"
  /\ lastCall.action_name = "borrowItem"
  /\ outcome = "guard_failed"
  /\ \E i \in 1..Len(history) :
        /\ history[i].event_type = "ACTION"
        /\ history[i].action_name = "borrowItem"
        /\ history[i].party = lastCall.party_name

(***************************************************************************)
(* C13  Determinism: two runs over the same model, the same initial world  *)
(* state and the same driver calls produce traces that are equal entry by  *)
(* entry, token ids and recorded arguments included.  Two runs that have   *)
(* made the same calls with the same draws are in the same state; whatever *)
(* uuid4 yields for the other run in the call of this step, the other      *)
(* run's trace after the call is this run's.                               *)
(***************************************************************************)
C13_Determinism ==
  [][lastCall'.op = "perform_action" =>
       \A uid \in UuidDraws :
         perform_action(lastCall'.party_name, lastCall'.action_name,
                        lastCall'.kwargs, uid, parties, artifacts, heap,
                        tokens, history, policy_values).history = history']_vars

(***************************************************************************)
(* C14  The trace is in call order: a call leaves the entries of earlier   *)
(* calls where they are and writes its own after them.  The entries of one *)
(* call start with its decision, ACTION or ACTION_PROHIBITED, which is the *)
(* only such entry and names the call; a prohibition stands alone; after   *)
(* an ACTION come the TOKEN_CREATE and delegation entries and only then    *)
(* the TOKEN_STATE_CHANGE entries of the event emission.  Calls other than *)
(* perform_action write nothing.                                           *)
(***************************************************************************)
C14_TraceOrder ==
  [][LET A == SubSeq(history', Len(history) + 1, Len(history'))
         decision(e) == e.event_type \in {"ACTION", "ACTION_PROHIBITED"}
         emitted(e) == /\ e.event_type = "TOKEN_STATE_CHANGE"
                       /\ e.trigger_event[1] # "delegated via"
         made(e) == \/ e.event_type = "TOKEN_CREATE"
                    \/ /\ e.event_type = "TOKEN_STATE_CHANGE"
                       /\ e.trigger_event[1] = "delegated via"
     IN /\ Len(history') >= Len(history)
        /\ SubSeq(history', 1, Len(history)) = history
        /\ lastCall'.op # "perform_action" => A = <<>>
        /\ A # <<>> =>
             /\ decision(A[1])
             /\ A[1].party = lastCall'.party_name
             /\ A[1].action_name = lastCall'.action_name
             /\ A[1].event_type = "ACTION_PROHIBITED" => Len(A) = 1
             /\ \A i \in 2..Len(A) : ~decision(A[i]) /\ (emitted(A[i]) \/ made(A[i]))
             /\ \A i \in 2..Len(A) : \A j \in (i + 1)..Len(A) :
                   ~(emitted(A[i]) /\ made(A[j]))]_vars

\* after entries of earlier calls the trace ends with the entries of a
\* delegation: its ACTION, the transfer, the activation its event caused
C14_Witness ==
  /\ lastCall.op = "perform_action"
  /\ lastCall.action_name = "return_item_delegation"
  /\ Len(history) > 3
  /\ LET n == Len(history)
     IN /\ history[n - 2].event_type = "ACTION"
        /\ history[n - 2].action_name = "return_item_delegation"
        /\ history[n - 1].event_type = "TOKEN_STATE_CHANGE"
        /\ history[n - 1].trigger_event = <<"delegated via", "return_item_delegation">>
        /\ history[n].event_type = "TOKEN_STATE_CHANGE"
        /\ history[n].trigger_event = <<"BurdenDelegated">>
        /\ \E i \in 1..(n - 3) : history[i].event_type = "TOKEN_CREATE"

(***************************************************************************)
(* C15  Parties and tokens are never removed: every step keeps every       *)
(* registered party name, and keeps every token of the list at the         *)
(* position it has, new tokens coming after them.                          *)
(***************************************************************************)
C15_NeverRemoved ==
  [][/\ DOMAIN parties \subseteq DOMAIN parties'
     /\ Len(tokens') >= Len(tokens)
     /\ \A i \in 1..Len(tokens) :
           tokens'[i].instance_id = tokens[i].instance_id]_vars

\* all three parties are registered, and a token that was handed to Bob
\* and discharged is still in the list, before a token minted with it
C15_Witness ==
  /\ DOMAIN parties = {"Alice", "Libby", "Bob"}
  /\ \E i \in 1..Len(tokens) :
        /\ tokens[i].owner = "Bob"
        /\ tokens[i].state = "DISCHARGED"
        /\ \E j \in (i + 1)..Len(tokens) :
              tokens[j].context = tokens[i].context

(***************************************************************************)
(* C16  A token's owner changes only in a successful Delegation, and then  *)
(* only for a token the Delegation can transfer; every other step leaves   *)
(* the owner of every existing token as it is, and no step changes the     *)
(* template, instance_id or context of an existing token.                  *)
(***************************************************************************)
C16_OwnerStable ==
  [][\A i \in 1..Len(tokens) :
       /\ i <= Len(tokens')
       /\ tokens'[i].template = tokens[i].template
       /\ tokens'[i].instance_id = tokens[i].instance_id
       /\ tokens'[i].context = tokens[i].context
       /\ tokens'[i].owner # tokens[i].owner =>
            /\ lastCall'.op = "perform_action"
            /\ SuccessfulDelegation
            /\ i \in Transferable(tokens, lastCall'.party_name, CalledAction,
                                   lastCall'.kwargs, heap)
            /\ tokens'[i].owner = DictGet(lastCall'.kwargs, "agent").v]_vars

\* a token minted for Alice is Bob's since a delegation, and a later call
\* that was not a delegation has left it with Bob
C16_Witness ==
  /\ lastCall.op = "perform_action"
  /\ lastCall.action_name # "return_item_delegation"
  /\ \E i \in 1..Len(tokens) :
        /\ tokens[i].owner = "Bob"
        /\ \E j \in 1..Len(history) :
              /\ history[j].event_type = "TOKEN_CREATE"
              /\ history[j].token_id = tokens[i].instance_id
              /\ history[j].owner = "Alice"

(***************************************************************************)
(* C17 as stated: an instance leaves the artifacts map only in a permitted *)
(* perform_action of returnItem whose loan argument is that instance: the  *)
(* argument and the instance taken out have the same id, template and      *)
(* properties.                                                             *)
(***************************************************************************)
C17_RemovedIsArgument ==
  [][\A id \in DOMAIN artifacts :
       id \notin DOMAIN artifacts' =>
         /\ lastCall'.op = "perform_action"
         /\ KnownCall
         /\ CalledAction.name = "returnItem"
         /\ ~HoldsActiveEmbargo(tokens, lastCall'.party_name)
         /\ ~GuardRefuses
         /\ DictGet(lastCall'.kwargs, "loan").k = "art"
         /\ heap[DictGet(lastCall'.kwargs, "loan").v] = heap[artifacts[id]]]_vars

(***************************************************************************)
(* C17  An entry leaves the artifacts map only in a permitted              *)
(* perform_action of returnItem, and it is the entry under the             *)
(* instance_id of the call's loan argument; every other entry, and every   *)
(* entry in any other call, stays and keeps its instance.                  *)
(***************************************************************************)
C17_RemovedById ==
  [][\A id \in DOMAIN artifacts :
       IF id \in DOMAIN artifacts'
       THEN artifacts'[id] = artifacts[id]
       ELSE /\ lastCall'.op = "perform_action"
            /\ KnownCall
            /\ CalledAction.name = "returnItem"
            /\ ~HoldsActiveEmbargo(tokens, lastCall'.party_name)
            /\ ~GuardRefuses
            /\ DictGet(lastCall'.kwargs, "loan").k = "art"
            /\ heap[DictGet(lastCall'.kwargs, "loan").v].instance_id = id]_vars

\* the one returnItem of the trace has taken its loan out of the map while
\* the book is still there
C17_Witness ==
  /\ lastCall.op = "perform_action"
  /\ lastCall.action_name = "returnItem"
  /\ outcome = "permitted"
  /\ DictGet(lastCall.kwargs, "loan").k = "art"
  /\ heap[DictGet(lastCall.kwargs, "loan").v].instance_id \notin DOMAIN artifacts
  /\ BookInput.instance_id \in DOMAIN artifacts
  /\ Cardinality({i \in 1..Len(history) :
                    /\ history[i].event_type = "ACTION"
                    /\ history[i].action_name = "returnItem"}) = 1

(***************************************************************************)
(* C18  Proxy return: a permitted proxy_return_item with loan L, performed *)
(* by the party that holds the ACTIVE return_item burden for L since a     *)
(* delegation, takes L out of the artifacts map and leaves that burden     *)
(* DISCHARGED.                                                             *)
(***************************************************************************)
C18_ProxyReturn ==
  [][(/\ lastCall'.op = "perform_action"
      /\ lastCall'.action_name = "proxy_return_item"
      /\ outcome' = "permitted"
      /\ DictGet(lastCall'.kwargs, "loan").k = "art")
     =>
     \A i \in 1..Len(tokens) :
       (/\ tokens[i].owner = lastCall'.party_name
        /\ tokens[i].template = "return_item"
        /\ tokens[i].state = "ACTIVE"
        /\ DictGet(tokens[i].context, "loan") = DictGet(lastCall'.kwargs, "loan")
        /\ \E j \in 1..Len(history) :
              /\ history[j].event_type = "TOKEN_STATE_CHANGE"
              /\ history[j].token_id = tokens[i].instance_id
              /\ history[j].trigger_event[1] = "delegated via")
       =>
       /\ tokens'[i].state = "DISCHARGED"
       /\ heap[DictGet(lastCall'.kwargs, "loan").v].instance_id
            \notin DOMAIN artifacts']_vars

(***************************************************************************)
(* C19  A permitted borrowItem by p with item i creates exactly one new    *)
(* Loan instance, with item i, borrower p and isOverdue false, and every   *)
(* token the call mints has that new Loan as context["loan"].              *)
(***************************************************************************)
C19_BorrowCreatesLoan ==
  [][(/\ lastCall'.op = "perform_action"
      /\ lastCall'.action_name = "borrowItem"
      /\ outcome' = "permitted")
     =>
     LET created == {id \in DOMAIN artifacts' :
                       \/ id \notin DOMAIN artifacts
                       \/ artifacts'[id] # artifacts[id]}
     IN /\ Cardinality(created) = 1
        /\ Len(heap') = Len(heap) + 1
        /\ \A id \in created :
              /\ artifacts'[id] = Len(heap')
              /\ heap'[artifacts'[id]].template = "Loan"
              /\ heap'[artifacts'[id]].properties =
                   <<KV("item", DictGet(lastCall'.kwargs, "item")),
                     KV("borrower", PartyV(lastCall'.party_name)),
                     KV("isOverdue", BoolV(FALSE))>>
              /\ \A t \in (Len(tokens) + 1)..Len(tokens') :
                    DictGet(tokens'[t].context, "loan") = ArtV(artifacts'[id])]_vars

(***************************************************************************)
(* C20  A permitted fineBorrower with loan L creates exactly one new Fine  *)
(* instance, with borrower L.borrower, loan L, amount 500 and isPaid       *)
(* false, and a token the call mints whose affected_role is fulfilled by   *)
(* L.borrower is owned by L.borrower, not by the performer.                *)
(***************************************************************************)
C20_FineCreatesFine ==
  [][(/\ lastCall'.op = "perform_action"
      /\ lastCall'.action_name = "fineBorrower"
      /\ outcome' = "permitted")
     =>
     LET L == DictGet(lastCall'.kwargs, "loan")
         borrower == DictGet(heap[L.v].properties, "borrower")
         created == {id \in DOMAIN artifacts' :
                       \/ id \notin DOMAIN artifacts
                       \/ artifacts'[id] # artifacts[id]}
     IN /\ Cardinality(created) = 1
        /\ Len(heap') = Len(heap) + 1
        /\ \A id \in created :
              /\ artifacts'[id] = Len(heap')
              /\ heap'[artifacts'[id]].template = "Fine"
              /\ heap'[artifacts'[id]].properties =
                   <<KV("borrower", borrower), KV("loan", L),
                     KV("amount", IntV(500)), KV("isPaid", BoolV(FALSE))>>
        /\ \A t \in (Len(tokens) + 1)..Len(tokens') :
              LET role == TokenTemplates[tokens'[t].template].affected_role
              IN (/\ role # NoRole
                  /\ borrower.k = "party"
                  /\ \E r \in 1..Len(parties[borrower.v].fulfills_roles) :
                        parties[borrower.v].fulfills_roles[r] = role)
                 => tokens'[t].owner = borrower.v]_vars

(***************************************************************************)
(* C21  resolve_token_owner returns the performer when the template has    *)
(* no affected_role.  Otherwise the places a party can stand in are taken  *)
(* in order: argument by argument, an argument that is a Party being one   *)
(* place and an argument that is an ArtifactInstance giving one place per  *)
(* property, in the order of the properties.  The result is the party at   *)
(* the first place that holds a Party fulfilling the role, and the         *)
(* performer when no place does.                                           *)
(***************************************************************************)
C21_ResolveOwner ==
  lastCall.op = "resolve_token_owner" =>
    LET role == TokenTemplates[lastCall.token_template].affected_role
        args == lastCall.action_args
        fulfils(v) == /\ v.k = "party"
                      /\ \E r \in 1..Len(parties[v.v].fulfills_roles) :
                            parties[v.v].fulfills_roles[r] = role
        \* <<i, 0>>: argument i itself; <<i, j>>: property j of argument i
        places == {<<i, 0>> : i \in 1..Len(args)}
                    \cup UNION {IF args[i].val.k = "art"
                                THEN {<<i, j>> : j \in 1..Len(heap[args[i].val.v].properties)}
                                ELSE {} : i \in 1..Len(args)}
        at(p) == IF p[2] = 0 THEN args[p[1]].val
                 ELSE heap[args[p[1]].val.v].properties[p[2]].val
        hits == {p \in places : fulfils(at(p))}
        before(p, q) == p[1] < q[1] \/ (p[1] = q[1] /\ p[2] <= q[2])
    IN IF role = NoRole \/ hits = {}
       THEN outcome = lastCall.performer
       ELSE outcome = at(CHOOSE p \in hits : \A q \in hits : before(p, q)).v

\* the first argument is an artifact whose two properties are parties with
\* the role and the second argument is the second of them: the answer is the
\* first property, not the later argument and not the performer
C21_Witness ==
  /\ lastCall.op = "resolve_token_owner"
  /\ TokenTemplates[lastCall.token_template].affected_role = "Borrower"
  /\ Len(lastCall.action_args) = 2
  /\ lastCall.action_args[1].val.k = "art"
  /\ lastCall.action_args[2].val.k = "party"
  /\ LET props == heap[lastCall.action_args[1].val.v].properties
     IN /\ props[1].val.k = "party"
        /\ has_role(parties[props[1].val.v], "Borrower")
        /\ props[2].val.k = "party"
        /\ has_role(parties[props[2].val.v], "Borrower")
        /\ props[2].val.v # props[1].val.v
        /\ lastCall.action_args[2].val.v = props[2].val.v
        /\ lastCall.performer = props[2].val.v
        /\ outcome = props[1].val.v

(***************************************************************************)
(* C22  EventExpression.evaluate on a set of occurred events: a leaf holds *)
(* exactly when its event is in the set, an AND node exactly when every    *)
(* operand holds, an OR node exactly when at least one operand holds, an   *)
(* operand being a sub-expression or an event; the call leaves the set and *)
(* the expression as they were.                                            *)
(***************************************************************************)
C22_Evaluate ==
  lastCall.op = "evaluate" =>
    LET occ == lastCall.occurred
        leaf(x) == x.op = "None" /\ Len(x.operands) = 1 /\ ~x.operands[1].isExpr
        \* a node whose operands are all events
        flat(x) == IF leaf(x) THEN x.operands[1].event \in occ
                   ELSE IF x.op = "AND"
                   THEN {i \in 1..Len(x.operands) : x.operands[i].event \notin occ} = {}
                   ELSE IF x.op = "OR"
                   THEN {i \in 1..Len(x.operands) : x.operands[i].event \in occ} # {}
                   ELSE FALSE
        holds(o) == IF o.isExpr THEN flat(o.expr) ELSE o.event \in occ
        x == lastCall.expression
        value == outcome = "True"
    IN /\ outcome \in {"True", "False"}
       /\ leaf(x) => (value <=> x.operands[1].event \in occ)
       /\ (~leaf(x) /\ x.op = "AND") =>
            (value <=> \A i \in 1..Len(x.operands) : holds(x.operands[i]))
       /\ (~leaf(x) /\ x.op = "OR") =>
            (value <=> \E i \in 1..Len(x.operands) : holds(x.operands[i]))
       /\ lastCall.expression_after = lastCall.expression
       /\ lastCall.occurred_after = lastCall.occurred

\* an AND of an OR that holds and an event that has not occurred is false
\* although one of its operands holds
C22_Witness ==
  /\ lastCall.op = "evaluate"
  /\ lastCall.expression =
       AndExpr(<<ExprOperand(OrExpr(<<EvOperand("ItemReturned"), EvOperand("FinePaid")>>)),
                 EvOperand("ItemReturned")>>)
  /\ lastCall.occurred = {"FinePaid"}
  /\ outcome = "False"

(***************************************************************************)
(* C23  For every set of occurred events an AND expression with an empty   *)
(* operand list evaluates to true, an OR expression with an empty operand  *)
(* list to false, and an expression that is not a leaf and whose operator  *)
(* is neither AND nor OR to false.                                         *)
(***************************************************************************)
C23_EdgeCases ==
  lastCall.op = "evaluate" =>
    LET x == lastCall.expression
        leaf == x.op = "None" /\ Len(x.operands) = 1 /\ ~x.operands[1].isExpr
    IN /\ (x.op = "AND" /\ x.operands = <<>>) => outcome = "True"
       /\ (x.op = "OR" /\ x.operands = <<>>) => outcome = "False"
       /\ (~leaf /\ x.op \notin {"AND", "OR"}) => outcome = "False"

\* an expression with an unknown operator is false although both its
\* operands have occurred
C23_Witness ==
  /\ lastCall.op = "evaluate"
  /\ lastCall.expression.op = "XOR"
  /\ lastCall.expression.operands = <<EvOperand("ItemReturned"), EvOperand("FinePaid")>>
  /\ lastCall.occurred = {"ItemReturned", "FinePaid"}
  /\ outcome = "False"

(***************************************************************************)
(* C24  Duplicate role names, artifact names, event names and policy names *)
(* within a community are each refused when the model is built and         *)
(* indexed: build_indexes raises on any of them, and no engine is          *)
(* constructed on a community holding two entities of one kind with the    *)
(* same name.                                                              *)
(***************************************************************************)
C24_DuplicatesRefused ==
  LET duplicates(list) ==
        \E i, j \in 1..Len(list) : i # j /\ list[i].name = list[j].name
      repeated == \/ duplicates(community.roles)
                  \/ duplicates(community.artifacts)
                  \/ duplicates(community.events)
                  \/ duplicates(community.rules)
  IN /\ (lastCall.op = "build_indexes" /\ repeated) => outcome = "raised"
     /\ lastCall.op = "Engine" => ~repeated

(***************************************************************************)
(* C25  After a successful build_indexes, get_role(n), get_artifact(n) and *)
(* get_event(n) each return nothing or the single element of the           *)
(* corresponding list whose name is n, and return an element whenever n    *)
(* occurs in that list.                                                    *)
(***************************************************************************)
C25_IndexLookup ==
  lastCall.op \in {"get_role", "get_artifact", "get_event"} =>
    LET list == IF lastCall.op = "get_role" THEN community.roles
                ELSE IF lastCall.op = "get_artifact" THEN community.artifacts
                ELSE community.events
        named == {i \in 1..Len(list) : list[i].name = lastCall.name}
    IN /\ \/ outcome = << >>
          \/ /\ Cardinality(named) = 1
             /\ \A i \in named : outcome = <<list[i]>>
       /\ named # {} => outcome # << >>

\* the second of two events is looked up and returned
C25_Witness ==
  /\ lastCall.op = "get_event"
  /\ Len(community.events) = 2
  /\ lastCall.name = community.events[2].name
  /\ outcome = <<community.events[2]>>

(***************************************************************************)
(* C26  In a guard context loanCount(p) is the number of artifact          *)
(* instances now in the artifacts map whose template is Loan and whose     *)
(* borrower property is p, and hasUnpaidFines(p) is true exactly when the  *)
(* map now holds a Fine with borrower p and isPaid false; loans removed by *)
(* returnItem and fines created by fineBorrower in earlier calls show in   *)
(* both.                                                                   *)
(***************************************************************************)
C26_DomainFunctions ==
  lastCall.op = "domain_functions" =>
    LET has(id, key, val) ==
          \E i \in 1..Len(heap[artifacts[id]].properties) :
            heap[artifacts[id]].properties[i] = [key |-> key, val |-> val]
        p == [k |-> "party", v |-> lastCall.p]
        loans == {id \in DOMAIN artifacts :
                    heap[artifacts[id]].template = "Loan" /\ has(id, "borrower", p)}
        unpaid == {id \in DOMAIN artifacts :
                     /\ heap[artifacts[id]].template = "Fine"
                     /\ has(id, "borrower", p)
                     /\ has(id, "isPaid", [k |-> "bool", v |-> FALSE])}
    IN /\ outcome.loanCount = Cardinality(loans)
       /\ outcome.hasUnpaidFines = (unpaid # {})

\* Alice has borrowed and returned, and was fined for the returned loan:
\* her loan count is 0 although her Loan object is still around, and she
\* has an unpaid fine
C26_Witness ==
  /\ lastCall.op = "domain_functions"
  /\ lastCall.p = "Alice"
  /\ \E i, j, k \in 1..Len(history) :
       /\ i < j /\ j < k
       /\ history[i].event_type = "ACTION" /\ history[i].action_name = "borrowItem"
       /\ history[j].event_type = "ACTION" /\ history[j].action_name = "returnItem"
       /\ history[k].event_type = "ACTION" /\ history[k].action_name = "fineBorrower"
  /\ \E o \in 1..Len(heap) :
       /\ heap[o].template = "Loan"
       /\ \A id \in DOMAIN artifacts : artifacts[id] # o
  /\ outcome = [loanCount |-> 0, hasUnpaidFines |-> TRUE]

(***************************************************************************)
(* C27  A Delegation hands a token T to the agent only if, when called,    *)
(* the agent fulfils the role action.agent, T is owned by the performer, T *)
(* is ACTIVE, T's template name is action.token_name and T's context loan  *)
(* equals the call's loan argument; a token that is INACTIVE, DISCHARGED,  *)
(* owned by someone else, differently named or bound to another loan keeps *)
(* its owner.                                                              *)
(***************************************************************************)
C27_DelegationTransfers ==
  [][(KnownCall /\ IsDelegation(CalledAction)) =>
       LET agent == DictGet(lastCall'.kwargs, "agent")
           loan == DictGet(lastCall'.kwargs, "loan")
           fulfils == /\ agent.k = "party"
                      /\ agent.v \in DOMAIN parties
                      /\ has_role(parties[agent.v], CalledAction.agent)
           barred(T) == \/ T.state \in {"INACTIVE", "DISCHARGED"}
                        \/ T.owner # lastCall'.party_name
                        \/ TokenTemplates[T.template].name # CalledAction.token_name
                        \/ ~ValEq(DictGet(T.context, "loan"), loan, heap)
       IN \A i \in 1..Len(tokens) :
            /\ tokens'[i].owner # tokens[i].owner =>
                 /\ tokens'[i].owner = agent.v
                 /\ fulfils
                 /\ tokens[i].owner = lastCall'.party_name
                 /\ tokens[i].state = "ACTIVE"
                 /\ TokenTemplates[tokens[i].template].name = CalledAction.token_name
                 /\ ValEq(DictGet(tokens[i].context, "loan"), loan, heap)
            /\ barred(tokens[i]) => tokens'[i].owner = tokens[i].owner]_vars

\* Alice has delegated the burden of her loan to Bob; the receipt minted
\* with it, INACTIVE and differently named, is still hers
C27_Witness ==
  /\ lastCall.op = "perform_action"
  /\ lastCall.action_name = "return_item_delegation"
  /\ outcome = "permitted"
  /\ \E i, j \in 1..Len(tokens) :
        /\ tokens[i].template = "return_item"
        /\ tokens[i].owner = "Bob"
        /\ tokens[j].template = "borrow_receipt"
        /\ tokens[j].context = tokens[i].context
        /\ tokens[j].state = "INACTIVE"
        /\ tokens[j].owner = "Alice"
  /\ history[Len(history)].event_type = "TOKEN_STATE_CHANGE"

(***************************************************************************)
(* C28  Firing an event e takes each token once, against the occurrence    *)
(* set {e} alone: an INACTIVE token whose activation_trigger is e becomes  *)
(* ACTIVE; otherwise an ACTIVE token whose finish_expression is satisfied  *)
(* by {e} becomes DISCHARGED; a token the firing activates is not          *)
(* discharged by it as well, and every other token keeps its state.        *)
(***************************************************************************)
C28_FireEvent ==
  lastCall.op = "fire_event" =>
    LET e == lastCall.event
        \* the finish expressions by their leaves: satisfied by {e} alone
        satisfied(x) ==
          IF x.op = "None" THEN x.operands[1].event = e
          ELSE IF x.op = "AND"
          THEN \A k \in 1..Len(x.operands) : x.operands[k].expr.operands[1].event = e
          ELSE \E k \in 1..Len(x.operands) : x.operands[k].expr.operands[1].event = e
        activates(T) == T.state = "INACTIVE" /\ T.template.activation_trigger = e
        discharges(T) == /\ T.state = "ACTIVE"
                         /\ T.template.has_finish
                         /\ satisfied(T.template.finish_expression)
    IN /\ Len(outcome) = Len(lastCall.tokens)
       /\ \A i \in 1..Len(lastCall.tokens) :
            LET T == lastCall.tokens[i]
            IN /\ activates(T) => outcome[i] = "ACTIVE"
               /\ (~activates(T) /\ discharges(T)) => outcome[i] = "DISCHARGED"
               /\ (~activates(T) /\ ~discharges(T)) => outcome[i] = T.state

\* FinePaid fires: the first token, triggered and finished by FinePaid, is
\* activated and not discharged; the second, ACTIVE and waiting for both
\* ItemReturned and FinePaid, stays ACTIVE
C28_Witness ==
  /\ lastCall.op = "fire_event"
  /\ lastCall.event = "FinePaid"
  /\ lastCall.tokens[1].state = "INACTIVE"
  /\ lastCall.tokens[1].template.activation_trigger = "FinePaid"
  /\ lastCall.tokens[1].template.finish_expression = Leaf("FinePaid")
  /\ lastCall.tokens[2].state = "ACTIVE"
  /\ lastCall.tokens[2].template.finish_expression.op = "AND"
  /\ outcome = <<"ACTIVE", "ACTIVE">>

(***************************************************************************)
(* C29  Event effects do not cascade: one perform_action call fires at     *)
(* most one event, the trigger_event of its action; activations and        *)
(* discharges fire no further event; so every token changes state at most  *)
(* once in a call.  In the trace: a call's state changes that come from an *)
(* event all name the trigger_event of the called action, no token has two *)
(* of them, and no token moves two states in one step.                     *)
(***************************************************************************)
C29_NoCascade ==
  [][LET fired == {k \in 1..Len(Appended) :
                     /\ Appended[k].event_type = "TOKEN_STATE_CHANGE"
                     /\ Len(Appended[k].trigger_event) = 1}
     IN /\ fired # {} =>
             /\ KnownCall
             /\ CalledAction.trigger_event # NoEvent
             /\ \A k \in fired :
                   Appended[k].trigger_event = <<CalledAction.trigger_event>>
        /\ \A k, l \in fired :
             Appended[k].token_id = Appended[l].token_id => k = l
        /\ \A i \in 1..Len(tokens') :
             LET before == IF i <= Len(tokens) THEN tokens[i].state ELSE "INACTIVE"
                 changes == Cardinality({k \in fired :
                               Appended[k].token_id = tokens'[i].instance_id})
             IN /\ tokens'[i].state # before => changes = 1
                /\ <<before, tokens'[i].state>> \notin {<<"INACTIVE", "DISCHARGED">>}]_vars

\* the last call fired FineIssued: the two tokens it minted were activated,
\* each once, and nothing else changed state; a token discharged by an
\* earlier call is in the list
C29_Witness ==
  /\ lastCall.op = "perform_action"
  /\ lastCall.action_name = "fineBorrower"
  /\ outcome = "permitted"
  /\ LET d == LastDecision(history)
         changes == {k \in (d + 1)..Len(history) :
                       history[k].event_type = "TOKEN_STATE_CHANGE"}
     IN /\ Cardinality(changes) = 2
        /\ \A k \in changes : /\ history[k].trigger_event = <<"FineIssued">>
                                /\ history[k].new_state = "ACTIVE"
        /\ \E k, l \in changes : history[k].token_id # history[l].token_id
        /\ \E i \in 1..Len(tokens) :
              /\ tokens[i].state = "DISCHARGED"

(***************************************************************************)
(* C30  A DISCHARGED token is inert: every later step leaves it DISCHARGED *)
(* and with the owner it has, no Delegation selects it (no step writes a   *)
(* trace entry for it), and a party whose embargoes are discharged, none   *)
(* of them ACTIVE, is not refused by the embargo screen.                   *)
(***************************************************************************)
C30_DischargedInert ==
  [][/\ \A i \in 1..Len(tokens) :
          tokens[i].state = "DISCHARGED" =>
            /\ i <= Len(tokens')
            /\ tokens'[i].state = "DISCHARGED"
            /\ tokens'[i].owner = tokens[i].owner
            /\ \A k \in 1..Len(Appended) :
                  Appended[k].event_type = "TOKEN_STATE_CHANGE" =>
                    Appended[k].token_id # tokens[i].instance_id
     /\ LET embargoes == {i \in 1..Len(tokens) :
                            /\ tokens[i].owner = lastCall'.party_name
                            /\ TokenTemplates[tokens[i].template].token_type = "EMBARGO"}
        IN (/\ KnownCall
            /\ \E i \in embargoes : tokens[i].state = "DISCHARGED"
            /\ \A i \in embargoes : tokens[i].state # "ACTIVE") =>
             /\ outcome' # "embargo"
             /\ \A k \in 1..Len(Appended) :
                   Appended[k].event_type = "ACTION_PROHIBITED" =>
                     Appended[k].reason[1] # "Active embargo"]_vars

\* Alice was fined, the fine was waived, and her next action is permitted:
\* her embargo and her burden to pay are DISCHARGED and still hers
C30_Witness ==
  /\ lastCall.op = "perform_action"
  /\ lastCall.party_name = "Alice"
  /\ outcome = "permitted"
  /\ \E i, j \in 1..Len(tokens) :
        /\ tokens[i].template = "borrow_ban"
        /\ tokens[i].owner = "Alice"
        /\ tokens[i].state = "DISCHARGED"
        /\ tokens[j].template = "pay_fine"
        /\ tokens[j].owner = "Alice"
  /\ \E k \in 1..Len(history) :
        /\ k < LastDecision(history)
        /\ history[k].event_type = "ACTION"
        /\ history[k].action_name = "waiveFine"

(***************************************************************************)
(* C31  The embargo screen runs before the guard screen: when the          *)
(* performer owns an ACTIVE embargo and the guard of the action would fail *)
(* as well, the call writes one ACTION_PROHIBITED entry, with the embargo  *)
(* reason, and neither the guard nor the domain functions are evaluated.   *)
(***************************************************************************)
C31_EmbargoBeforeGuard ==
  [][(/\ KnownCall
      /\ HoldsActiveEmbargo(tokens, lastCall'.party_name)
      /\ GuardRefuses) =>
       /\ Len(Appended) = 1
       /\ Appended[1].event_type = "ACTION_PROHIBITED"
       /\ Appended[1].reason[1] = "Active embargo"
       /\ ~lastCall'.guard_evaluated
       /\ UNCHANGED <<artifacts, heap, tokens, policy_values>>]_vars

\* Alice, a Borrower first, has a loan and a fine: her borrowItem, whose
\* guard loanCount(self) < max_loans would fail, is refused for the ban
C31_Witness ==
  /\ lastCall.op = "perform_action"
  /\ lastCall.party_name = "Alice"
  /\ lastCall.action_name = "borrowItem"
  /\ parties["Alice"].fulfills_roles[1] = "Borrower"
  /\ loan_count(PartyV("Alice"), artifacts, heap) >= policy_values.max_loans
  /\ outcome = "embargo"
  /\ ~lastCall.guard_evaluated
  /\ history[Len(history)].event_type = "ACTION_PROHIBITED"
  /\ history[Len(history)].reason = <<"Active embargo", "borrow_ban">>

(***************************************************************************)
(* C32  perform_action resolves the action through the party's fulfilled   *)
(* roles in the order given at create_party and, within a role, through    *)
(* its actions in order: of two fulfilled roles that define an action of   *)
(* the name, the earlier one supplies the guard, the tokens and the        *)
(* trigger event the call uses; a role returns the first of its actions    *)
(* with the name.                                                          *)
(***************************************************************************)
C32_ActionResolution ==
  [][/\ lastCall'.op = "get_action" =>
          LET acts == lastCall'.role.actions
              named == {a \in 1..Len(acts) : acts[a].name = lastCall'.action_name}
          IN \/ named = {} /\ outcome' = << >>
             \/ \E a \in named : /\ \A b \in named : a <= b
                                  /\ outcome' = <<acts[a]>>
     /\ (lastCall'.op = "perform_action" /\ lastCall'.party_name \in DOMAIN parties) =>
          LET rs == parties[lastCall'.party_name].fulfills_roles
              defines(k) == \E i \in 1..Len(Roles) :
                              /\ Roles[i].name = rs[k]
                              /\ \E a \in 1..Len(Roles[i].actions) :
                                    Roles[i].actions[a].name = lastCall'.action_name
              defining == {k \in 1..Len(rs) : defines(k)}
          IN IF defining = {} THEN outcome' = "action_not_found"
             ELSE \E k \in defining, i \in 1..Len(Roles) :
                    /\ \A l \in defining : k <= l
                    /\ Roles[i].name = rs[k]
                    /\ \E a \in 1..Len(Roles[i].actions) :
                          LET A == Roles[i].actions[a]
                              events == {e \in 1..Len(Appended) :
                                           /\ Appended[e].event_type = "TOKEN_STATE_CHANGE"
                                           /\ Len(Appended[e].trigger_event) = 1}
                          IN /\ A.name = lastCall'.action_name
                             /\ outcome' # "embargo" =>
                                  lastCall'.guard_evaluated = (A.guard # NoGuard)
                             /\ outcome' = "permitted" =>
                                  /\ [t \in 1..Len(Minted) |-> Minted[t].template]
                                       = (IF A.variant = "BasicAction"
                                          THEN << >> ELSE A.tokens)
                                  /\ \A e \in events :
                                       Appended[e].trigger_event = <<A.trigger_event>>]_vars

\* Alice, registered as Borrower and Undergraduate in that order, borrows:
\* the guard of the Borrower's borrowItem was evaluated and its one token
\* minted, not the two of the Undergraduate's
C32_Witness ==
  /\ lastCall.op = "perform_action"
  /\ lastCall.party_name = "Alice"
  /\ lastCall.action_name = "borrowItem"
  /\ parties["Alice"].fulfills_roles = <<"Borrower", "Undergraduate">>
  /\ outcome = "permitted"
  /\ lastCall.guard_evaluated
  /\ Len(tokens) = 1
  /\ tokens[1].template = "return_item"

(***************************************************************************)
(* C33  The tokens an action mints are in the list before its trigger      *)
(* event fires: a minted token whose activation_trigger is the             *)
(* trigger_event of the minting action is ACTIVE when the call returns,    *)
(* and the call's part of the trace holds its TOKEN_CREATE and, after it,  *)
(* its TOKEN_STATE_CHANGE to ACTIVE.                                       *)
(***************************************************************************)
C33_MintThenFire ==
  [][\A i \in (Len(tokens) + 1)..Len(tokens') :
       LET T == tokens'[i]
           e == CalledAction.trigger_event
       IN (e # NoEvent /\ TokenTemplates[T.template].activation_trigger = e) =>
            /\ T.state = "ACTIVE"
            /\ \E k, l \in 1..Len(Appended) :
                  /\ k < l
                  /\ Appended[k].event_type = "TOKEN_CREATE"
                  /\ Appended[k].token_id = T.instance_id
                  /\ Appended[l].event_type = "TOKEN_STATE_CHANGE"
                  /\ Appended[l].token_id = T.instance_id
                  /\ Appended[l].new_state = "ACTIVE"
                  /\ Appended[l].trigger_event = <<e>>]_vars

\* the last call was a borrowItem that minted two tokens: the burden, which
\* ItemBorrowed activates, is ACTIVE, created and then activated in the
\* trace of the call; the receipt, which no event activates, is INACTIVE
C33_Witness ==
  /\ lastCall.op = "perform_action"
  /\ lastCall.action_name = "borrowItem"
  /\ outcome = "permitted"
  /\ LET d == LastDecision(history)
     IN \E i, j \in 1..Len(tokens) :
          /\ tokens[i].template = "return_item"
          /\ tokens[i].state = "ACTIVE"
          /\ tokens[j].template = "borrow_receipt"
          /\ tokens[j].state = "INACTIVE"
          /\ \E k, l \in (d + 1)..Len(history) :
                /\ k < l
                /\ history[k].event_type = "TOKEN_CREATE"
                /\ history[k].token_id = tokens[i].instance_id
                /\ history[l].event_type = "TOKEN_STATE_CHANGE"
                /\ history[l].token_id = tokens[i].instance_id
          /\ \E k \in (d + 1)..Len(history) :
                /\ history[k].event_type = "TOKEN_CREATE"
                /\ history[k].token_id = tokens[j].instance_id

C35_AndNeverDischarged ==
  lastCall.op = "fire_event" =>
    \A i \in 1..Len(lastCall.tokens) :
      LET T == lastCall.tokens[i].template
          x == T.finish_expression
      IN (/\ T.has_finish
          /\ x.op = "AND"
          /\ \E j \in 1..Len(x.operands), k \in 1..Len(x.operands) :
               x.operands[j].expr.operands[1].event # x.operands[k].expr.operands[1].event)
         => /\ lastCall.tokens[i].state # "DISCHARGED"
            /\ outcome[i] # "DISCHARGED"

\* both tokens were activated by ItemReturned; the second, finished by
\* ItemReturned, has been discharged by a later ItemReturned, which the
\* first, waiting for ItemReturned and FinePaid, met while ACTIVE; now
\* FinePaid fires and the first token stays ACTIVE
C35_Witness ==
  /\ lastCall.op = "fire_event"
  /\ lastCall.event = "FinePaid"
  /\ lastCall.tokens[1].template.activation_trigger = "ItemReturned"
  /\ lastCall.tokens[1].template.has_finish
  /\ lastCall.tokens[1].template.finish_expression.op = "AND"
  /\ lastCall.tokens[1].state = "ACTIVE"
  /\ lastCall.tokens[2].template.activation_trigger = "ItemReturned"
  /\ lastCall.tokens[2].template.finish_expression = Leaf("ItemReturned")
  /\ lastCall.tokens[2].state = "DISCHARGED"
  /\ outcome[1] = "ACTIVE"


(***************************************************************************)
(* C36  Discharge and activation by a fired event are not scoped to the    *)
(* performer or to the action's arguments: when a permitted call fires its *)
(* action's event e, every token INACTIVE before the firing (minted by the *)
(* call or earlier) whose activation_trigger is e is ACTIVE after the      *)
(* call, and every token ACTIVE before the call whose finish_expression is *)
(* satisfied by {e} is DISCHARGED after it, whoever owns the token and     *)
(* whatever loan or fine its context names.                                *)
(***************************************************************************)
C36_EventUnscoped ==
  [][(/\ KnownCall
      /\ outcome' = "permitted"
      /\ CalledAction.trigger_event # NoEvent) =>
       LET e == CalledAction.trigger_event
           \* the finish expressions by their leaves: satisfied by {e} alone
           satisfied(x) ==
             IF x.op = "None" THEN x.operands[1].event = e
             ELSE IF x.op = "AND"
             THEN \A k \in 1..Len(x.operands) : x.operands[k].expr.operands[1].event = e
             ELSE \E k \in 1..Len(x.operands) : x.operands[k].expr.operands[1].event = e
       IN /\ Len(tokens') >= Len(tokens)
          /\ \A i \in 1..Len(tokens') :
               LET before == IF i <= Len(tokens) THEN tokens[i].state ELSE "INACTIVE"
                   T == TokenTemplates[tokens'[i].template]
               IN /\ (before = "INACTIVE" /\ T.activation_trigger = e)
                      => tokens'[i].state = "ACTIVE"
                  /\ (before = "ACTIVE" /\ T.has_finish /\ satisfied(T.finish_expression))
                      => tokens'[i].state = "DISCHARGED"]_vars

\* Bob's proxy_return_item for one loan has discharged a return_item burden
\* that Alice owns and that was minted for another loan
C36_Witness ==
  /\ lastCall.op = "perform_action"
  /\ lastCall.party_name = "Bob"
  /\ lastCall.action_name = "proxy_return_item"
  /\ DictHas(lastCall.kwargs, "loan")
  /\ outcome = "permitted"
  /\ \E i \in 1..Len(tokens) :
       /\ tokens[i].owner = "Alice"
       /\ tokens[i].template = "return_item"
       /\ tokens[i].state = "DISCHARGED"
       /\ DictHas(tokens[i].context, "loan")
       /\ DictGet(tokens[i].context, "loan") # DictGet(lastCall.kwargs, "loan")
       /\ \E k \in (LastDecision(history) + 1)..Len(history) :
            /\ history[k].event_type = "TOKEN_STATE_CHANGE"
            /\ history[k].token_id = tokens[i].instance_id
            /\ history[k].new_state = "DISCHARGED"
            /\ history[k].trigger_event = <<"ItemReturned">>


(***************************************************************************)
(* C37  Only an ACTIVE embargo owned by the performing party blocks an     *)
(* action: a call writes an ACTION_PROHIBITED entry with an embargo reason *)
(* only if, when it starts, the performer owns a token that is ACTIVE and  *)
(* of type EMBARGO, the one the reason names; an embargo that is INACTIVE  *)
(* or DISCHARGED, an embargo of another party, an ACTIVE permit or burden  *)
(* of the performer never do.                                              *)
(***************************************************************************)
C37_OnlyOwnActiveEmbargo ==
  [][\A k \in 1..Len(Appended) :
       (/\ Appended[k].event_type = "ACTION_PROHIBITED"
        /\ Appended[k].reason[1] = "Active embargo") =>
         /\ lastCall'.op = "perform_action"
         /\ \E i \in 1..Len(tokens) :
              /\ tokens[i].owner = lastCall'.party_name
              /\ tokens[i].state = "ACTIVE"
              /\ TokenTemplates[tokens[i].template].token_type = "EMBARGO"
              /\ TokenTemplates[tokens[i].template].name = Appended[k].reason[2]]_vars

\* Alice's returnItem is permitted while she owns an INACTIVE embargo and
\* an ACTIVE burden and Bob owns an ACTIVE embargo
C37_Witness ==
  /\ lastCall.op = "perform_action"
  /\ lastCall.party_name = "Alice"
  /\ lastCall.action_name = "returnItem"
  /\ outcome = "permitted"
  /\ history[Len(history)].event_type = "ACTION"
  /\ \E i, j, k \in 1..Len(tokens) :
       /\ tokens[i].owner = "Alice"
       /\ tokens[i].template = "borrow_ban"
       /\ tokens[i].state = "INACTIVE"
       /\ tokens[j].owner = "Bob"
       /\ tokens[j].template = "borrow_ban"
       /\ tokens[j].state = "ACTIVE"
       /\ tokens[k].owner = "Alice"
       /\ tokens[k].template = "pay_fine"
       /\ tokens[k].state = "ACTIVE"


(***************************************************************************)
(* C38  A perform_action call of a registered party for an action the      *)
(* party can resolve appends exactly one decision entry to the trace,      *)
(* ACTION or ACTION_PROHIBITED and never both; and every TOKEN_CREATE or   *)
(* TOKEN_STATE_CHANGE entry a step appends comes after an ACTION entry     *)
(* that the same step appended for the call.                               *)
(***************************************************************************)
C38_OneDecision ==
  [][/\ KnownCall =>
          Cardinality({k \in 1..Len(Appended) :
                         Appended[k].event_type \in {"ACTION", "ACTION_PROHIBITED"}}) = 1
     /\ \A k \in 1..Len(Appended) :
          Appended[k].event_type \in {"TOKEN_CREATE", "TOKEN_STATE_CHANGE"} =>
            \E j \in 1..(k - 1) :
              /\ Appended[j].event_type = "ACTION"
              /\ lastCall'.op = "perform_action"
              /\ Appended[j].party = lastCall'.party_name
              /\ Appended[j].action_name = lastCall'.action_name]_vars

\* Libby's fineBorrower was refused by its guard, one ACTION_PROHIBITED
\* entry; the loan became overdue and the same call is permitted: one
\* ACTION entry, then two TOKEN_CREATE and two TOKEN_STATE_CHANGE entries
C38_Witness ==
  /\ lastCall.op = "perform_action"
  /\ lastCall.party_name = "Libby"
  /\ lastCall.action_name = "fineBorrower"
  /\ outcome = "permitted"
  /\ LET d == LastDecision(history)
     IN /\ d > 1
        /\ history[d].event_type = "ACTION"
        /\ Len(history) = d + 4
        /\ history[d + 1].event_type = "TOKEN_CREATE"
        /\ history[d + 2].event_type = "TOKEN_CREATE"
        /\ history[d + 3].event_type = "TOKEN_STATE_CHANGE"
        /\ history[d + 4].event_type = "TOKEN_STATE_CHANGE"
        /\ history[d - 1].event_type = "ACTION_PROHIBITED"
        /\ history[d - 1].party = "Libby"
        /\ history[d - 1].action_name = "fineBorrower"
        /\ history[d - 1].reason[1] = "Guard failed"

====
